---------------------------- MODULE Spec2Model ----------------------------
(***************************************************************************)
(* A model of release-tool: one call of ReleaseManager.release, with the   *)
(* FTP client, the old-file handlers, the pre-signer and the release-notes *)
(* uploader it drives.  The remote store, the local file system, the       *)
(* operator and the clock are the environment: every answer they can give  *)
(* is a nondeterministic choice of the action that asks.                   *)
(*                                                                         *)
(* A remote path is the sequence of its components below the server root;  *)
(* an optional value (Python's None) is a sequence of length at most one.  *)
(***************************************************************************)
EXTENDS Naturals, Sequences, FiniteSets, TLC

VARIABLES
    config,        \* ReleaseConfig: old_file policy/naming/base, pre_sign, release_notes
    dry_run,       \* ReleaseManager.dry_run
    version,       \* ReleaseManager.version: <<>> is None, <<v>> is the string v
    filename,      \* file_path.name, the name of the artifact
    pc,            \* the position of control inside release
    result,        \* the value release returns: "none" until it returns
    exc,           \* the exception in flight, or the one release raised: "none" if none
    ftp,           \* FTPClient._ftp: "None" or "handle"
    wire,          \* the control connection to the server: "closed" or "open"
    cwd,           \* the session's working directory on the server
    dirs,          \* the directories of the remote store
    files,         \* the files of the remote store: path -> content
    calls,         \* the calls made so far, in order, with what each returned
    warnings,      \* the warnings logged so far
    localFile,     \* the content of the artifact at file_path: "absent" if there is none
    exchangeFile,  \* the content of network_path/filename
    signedFile,    \* network_path_signed/filename: <<>> or <<signer>> (signer itself optional)
    netAccessible, \* whether network_path exists
    elapsed,       \* pre-sign wait: seconds since start_time
    pollCount,     \* pre-sign wait: poll_count
    todo,          \* release notes: the new folders still to upload
    init,          \* the remote store and the local files as release found them
    exit_code,     \* what run returned: <<>> until it returns, then <<code>>
    polls,         \* pre-sign wait: the polls made, each [at, found]: when it started, what it found
    copyTime       \* pre-sign: the seconds the copy to the exchange location takes

vars == <<config, dry_run, version, filename, pc, result, exc, ftp, wire, cwd, dirs, files,
          calls, warnings, localFile, exchangeFile, signedFile, netAccessible,
          elapsed, pollCount, todo, init, exit_code, polls, copyTime>>

-----------------------------------------------------------------------------
(* Bounds of the model.                                                    *)

\* The pre-sign timeouts tried are 0..MaxTimeout seconds.
MaxTimeout == 2

\* A sleep of poll_interval seconds may overrun by up to MaxOverrun seconds.
MaxOverrun == 1

\* The copy to the exchange location takes 0..MaxCopyTime seconds.
MaxCopyTime == 2

-----------------------------------------------------------------------------
(* Values.                                                                 *)

None == <<>>

Some(v) == <<v>>

\* Python's truth value of an optional string: None and "" are both false.
Truthy(v) == v # None /\ v[1] # ""

\* The names of the artifacts released.
FileNames == {"app.exe", "setup.msi"}

\* FTPConfig.remote_path ("/releases").
RemotePath == <<"releases">>

\* The versions a caller passes: none, the empty string, a version string.
Versions == {None, Some(""), Some("1.0.0")}

\* What the operator can type at the overwrite prompt.
Answers == {"y", "Y", "n", "", "yes", " y"}

\* str.lower on the answers above.
Lower(s) == CASE s = "Y" -> "y"
              [] OTHER -> s

\* The clock readings datetime.now() can give: (year, month, day, hour, minute, second).
Times == { <<2024, 1, 15, 10, 30, 45>>, <<2024, 6, 20, 14, 0, 0>> }

Pad2(n) == IF n < 10 THEN "0" \o ToString(n) ELSE ToString(n)

Pad4(n) == IF n < 10 THEN "000" \o ToString(n)
           ELSE IF n < 100 THEN "00" \o ToString(n)
           ELSE IF n < 1000 THEN "0" \o ToString(n)
           ELSE ToString(n)

\* datetime.strftime("%Y%m%d_%H%M%S").
Strftime(t) == Pad4(t[1]) \o Pad2(t[2]) \o Pad2(t[3]) \o "_"
               \o Pad2(t[4]) \o Pad2(t[5]) \o Pad2(t[6])

\* A call as the log keeps it.
Call(op, args, ret) == [op |-> op, args |-> args, ret |-> ret]

\* The indices of the calls of one operation.
CallsOf(op) == { i \in 1..Len(calls) : calls[i].op = op }

\* The operations of FTPClient that act on the remote side.
TransportOps == {"connect", "disconnect", "file_exists", "directory_exists",
                 "delete_file", "rename_file", "ensure_directory", "upload_file",
                 "change_directory", "list_directories"}

Parent(p) == SubSeq(p, 1, Len(p) - 1)

IsPrefix(p, q) == Len(p) <= Len(q) /\ SubSeq(q, 1, Len(p)) = p

\* f with key k set to v.
Put(f, k, v) == [x \in DOMAIN f \cup {k} |-> IF x = k THEN v ELSE f[x]]

\* f without key k.
Drop(f, k) == [x \in DOMAIN f \ {k} |-> f[x]]

\* What the server can do with one command: carry it out as its state allows,
\* refuse it (a 5xx reply: ftplib.error_perm), or fail otherwise (a 4xx reply, a
\* dropped connection: ftplib.error_temp, OSError, EOFError).
Outcomes == {"ok", "perm", "oserr"}

-----------------------------------------------------------------------------
(* ftplib, as the server answers it.  The server is honest about its state: *)
(* a command it carries out ("ok") succeeds exactly when the state allows   *)
(* it and is answered with a 5xx refusal otherwise; SIZE in particular is   *)
(* refused only for a name that is no file.                                 *)

\* FTP.mkd(target): [st, dirs].
FtpMkd(d, f, target, o) ==
    IF o # "ok" THEN [st |-> o, dirs |-> d]
    ELSE IF Parent(target) \in d /\ target \notin d /\ target \notin DOMAIN f
         THEN [st |-> "ok", dirs |-> d \cup {target}]
         ELSE [st |-> "perm", dirs |-> d]

\* The loop reduced to one mkd of the whole path.
MkdLoop_LeafOnly(d, f, c, parts, outs, i) ==
    LET r == FtpMkd(d, f, c \o parts, outs[Len(parts)])
    IN  [st |-> IF r.st = "oserr" THEN "oserr" ELSE "ok", dirs |-> r.dirs,
         tried |-> Len(parts)]

\* The loop of _create_remote_path and of ensure_directory from component i on:
\* mkd of every prefix of the path, relative to the working directory c;
\* error_perm is swallowed, any other error leaves the loop.  [st, dirs, tried].
RECURSIVE MkdLoop(_, _, _, _, _, _)
MkdLoop(d, f, c, parts, outs, i) ==
    IF i > Len(parts) THEN [st |-> "ok", dirs |-> d, tried |-> i - 1]
    ELSE LET r == FtpMkd(d, f, c \o SubSeq(parts, 1, i), outs[i])
         IN  IF r.st = "oserr" THEN [st |-> "oserr", dirs |-> d, tried |-> i]
             ELSE MkdLoop(r.dirs, f, c, parts, outs, i + 1)

\* The outcomes of the mkd commands of one path.
MkdOutcomes(parts) == [1..Len(parts) -> Outcomes]

-----------------------------------------------------------------------------
(* FTPClient.  Each operator gives what one method call does from the      *)
(* current state: the exception it raises ("none" if it returns), what it  *)
(* returns, and the remote store after it.                                 *)

NotConnected == ftp = "None"

\* connect keeps the ftplib.FTP object it made (26) when FTP.connect fails: the
\* client then holds a handle that has no socket, and ftplib raises
\* AttributeError from any command sent through it.
NoSocket == ftp = "handle" /\ wire = "closed"

\* How a connect attempt can go: through, or failing at FTP.connect, at
\* FTP.login, or at the cwd/pwd into remote_path with an error that is not a refusal.
ConnectChoices == {"ok", "connect_fails", "login_fails", "cwd_fails"}

\* FTPClient.connect: [exc, ftp, wire, cwd, dirs].
Connect(c, outs) ==
    CASE c = "connect_fails" ->
            [exc |-> "FTPError", ftp |-> "handle", wire |-> "closed", cwd |-> <<>>, dirs |-> dirs]
      [] c \in {"login_fails", "cwd_fails"} ->
            [exc |-> "FTPError", ftp |-> "handle", wire |-> "open", cwd |-> <<>>, dirs |-> dirs]
      [] OTHER ->
            IF RemotePath \in dirs
            THEN [exc |-> "none", ftp |-> "handle", wire |-> "open", cwd |-> RemotePath, dirs |-> dirs]
            ELSE LET r == MkdLoop(dirs, files, <<>>, RemotePath, outs, 1)
                 IN  IF r.st = "ok" /\ RemotePath \in r.dirs
                     THEN [exc |-> "none", ftp |-> "handle", wire |-> "open",
                           cwd |-> RemotePath, dirs |-> r.dirs]
                     ELSE [exc |-> "FTPError", ftp |-> "handle", wire |-> "open",
                           cwd |-> <<>>, dirs |-> r.dirs]

\* FTPClient.file_exists(filename): [exc, ret].
FileExists(name, o) ==
    IF NotConnected THEN [exc |-> "FTPError", ret |-> FALSE]
    ELSE IF NoSocket THEN [exc |-> "AttributeError", ret |-> FALSE]
    ELSE IF o = "oserr" THEN [exc |-> "OSError", ret |-> FALSE]
    ELSE IF o = "perm" THEN [exc |-> "none", ret |-> FALSE]
    ELSE [exc |-> "none", ret |-> (cwd \o <<name>>) \in DOMAIN files]

\* FTPClient.delete_file(filename): [exc, files].
DeleteFile(name, o) ==
    IF NotConnected THEN [exc |-> "FTPError", files |-> files]
    ELSE IF NoSocket THEN [exc |-> "AttributeError", files |-> files]
    ELSE IF o = "oserr" THEN [exc |-> "OSError", files |-> files]
    ELSE IF o = "ok" /\ (cwd \o <<name>>) \in DOMAIN files
         THEN [exc |-> "none", files |-> Drop(files, cwd \o <<name>>)]
         ELSE [exc |-> "FTPError", files |-> files]

\* FTPClient.rename_file(old_name, new_name) on store (d, f): [exc, files].
RenameFile(d, f, old, new, o) ==
    IF NotConnected THEN [exc |-> "FTPError", files |-> f]
    ELSE IF NoSocket THEN [exc |-> "AttributeError", files |-> f]
    ELSE IF o = "oserr" THEN [exc |-> "OSError", files |-> f]
    ELSE IF /\ o = "ok"
            /\ (cwd \o old) \in DOMAIN f
            /\ Parent(cwd \o new) \in d
            /\ (cwd \o new) \notin d
         THEN [exc |-> "none", files |-> Put(Drop(f, cwd \o old), cwd \o new, f[cwd \o old])]
         ELSE [exc |-> "FTPError", files |-> f]

\* FTPClient.ensure_directory(path) on store (d, f) from directory c: [exc, dirs].
EnsureDirectory(d, f, c, parts, outs) ==
    IF NotConnected THEN [exc |-> "FTPError", dirs |-> d]
    ELSE IF NoSocket THEN [exc |-> "AttributeError", dirs |-> d]
    ELSE LET r == MkdLoop(d, f, c, parts, outs, 1)
         IN  [exc |-> IF r.st = "ok" THEN "none" ELSE "OSError", dirs |-> r.dirs]

\* How a STOR can go: through, refused, or broken off with or without a partial file.
UploadOutcomes == {"ok", "perm", "oserr", "partial"}

\* FTPClient.upload_file(local_path) of a file named name holding content,
\* into directory c of store (d, f): [exc, files].
UploadFile(d, f, c, name, content, o) ==
    IF NotConnected THEN [exc |-> "FTPError", files |-> f]
    ELSE IF NoSocket /\ content # "absent" THEN [exc |-> "AttributeError", files |-> f]
    ELSE IF content = "absent" \/ o \in {"perm", "oserr"} \/ (c \o <<name>>) \in d
         THEN [exc |-> "FTPError", files |-> f]
    ELSE IF o = "partial"
         THEN [exc |-> "FTPError", files |-> Put(f, c \o <<name>>, "partial")]
    ELSE [exc |-> "none", files |-> Put(f, c \o <<name>>, content)]

\* How FTP.quit can go.
QuitOutcomes == {"ok", "err"}

\* A disconnect that leaves the session as it is.
Disconnect_Noop(q) == [exc |-> "none", ftp |-> ftp, wire |-> wire]

\* FTPClient.disconnect: quit, and close when quit fails (q = "err"), whatever
\* close does; the handle is dropped either way.  Only ftplib.Error, OSError
\* and EOFError from quit are caught: the AttributeError of a handle without a
\* socket leaves disconnect, with the handle kept.  [exc, ftp, wire].
Disconnect(q) ==
    IF NotConnected THEN [exc |-> "none", ftp |-> ftp, wire |-> wire]
    ELSE IF NoSocket THEN [exc |-> "AttributeError", ftp |-> ftp, wire |-> wire]
    ELSE [exc |-> "none", ftp |-> "None", wire |-> "closed"]

\* A session scope without try/finally: a raise in the body skips the disconnect.
OnRaise_NoFinally(p) == "done"

\* FTPClient.connection: where control goes when the body of the session scope
\* entered at p raises: to the scope's exit, which disconnects.
OnRaise(p) == IF p \in {"gate_check", "gate_prompt"} THEN "gate_fin" ELSE "main_fin"

\* FTPClient.directory_exists(path): [exc, ret].
DirectoryExists(path, o) ==
    IF NotConnected \/ o # "ok" THEN [exc |-> "FTPError", ret |-> FALSE]
    ELSE [exc |-> "none", ret |-> (cwd \o path) \in dirs]

-----------------------------------------------------------------------------
(* The old-file handlers.                                                  *)

\* OldFileConfig.subfolder_base ("old_versions").
SubfolderBase == "old_versions"

\* The suffix taken from the version whenever there is one, whatever the naming.
ComputeSuffix_VersionFirst(naming, v, t) ==
    IF Truthy(v)
    THEN [suffix |-> v[1], warn |-> FALSE]
    ELSE [suffix |-> Strftime(t), warn |-> naming = "version"]

\* RenameHandler.handle, the choice of the suffix: [suffix, warn].
ComputeSuffix(naming, v, t) ==
    IF naming = "timestamp"
    THEN [suffix |-> Strftime(t), warn |-> FALSE]
    ELSE IF ~Truthy(v)
         THEN [suffix |-> Strftime(t), warn |-> TRUE]
         ELSE [suffix |-> v[1], warn |-> FALSE]

\* A delete handler that makes sure of the backup directory first.
DeleteHandle_EnsuresDir(name, v, o) ==
    LET e == EnsureDirectory(dirs, files, cwd, <<SubfolderBase>>, [i \in {1} |-> "ok"])
        r == DeleteFile(name, o)
    IN  [exc |-> r.exc, dirs |-> e.dirs, files |-> r.files,
         calls |-> << Call("ensure_directory", << <<SubfolderBase>> >>, e.exc),
                      Call("delete_file", <<<<name>>>>, r.exc) >>, warn |-> FALSE]

\* DeleteHandler.handle(client, filename, version): [exc, dirs, files, calls, warn].
DeleteHandle(name, v, o) ==
    LET r == DeleteFile(name, o)
    IN  [exc |-> r.exc, dirs |-> dirs, files |-> r.files,
         calls |-> << Call("delete_file", <<<<name>>>>, r.exc) >>, warn |-> FALSE]

\* A rename handler that makes sure of the subfolder before its base.
RenameHandle_SubfolderFirst(naming, name, v, t, o1, o2, o3) ==
    LET s   == ComputeSuffix(naming, v, t)
        sub == <<SubfolderBase, s.suffix>>
        new == sub \o <<name>>
        e1  == EnsureDirectory(dirs, files, cwd, sub, o2)
        c1  == Call("ensure_directory", <<sub>>, e1.exc)
        e2  == EnsureDirectory(e1.dirs, files, cwd, <<SubfolderBase>>, o1)
        c2  == Call("ensure_directory", << <<SubfolderBase>> >>, e2.exc)
        e3  == RenameFile(e2.dirs, files, <<name>>, new, o3)
        c3  == Call("rename_file", << <<name>>, new >>, e3.exc)
    IN  IF e1.exc # "none"
        THEN [exc |-> e1.exc, dirs |-> e1.dirs, files |-> files, calls |-> <<c1>>,
              warn |-> s.warn]
        ELSE IF e2.exc # "none"
        THEN [exc |-> e2.exc, dirs |-> e2.dirs, files |-> files, calls |-> <<c1, c2>>,
              warn |-> s.warn]
        ELSE [exc |-> e3.exc, dirs |-> e2.dirs, files |-> e3.files,
              calls |-> <<c1, c2, c3>>, warn |-> s.warn]

\* RenameHandler.handle(client, filename, version) at clock reading t, the
\* server answering the two ensure_directory calls with o1, o2 and the rename
\* with o3: [exc, dirs, files, calls, warn].
RenameHandle(naming, name, v, t, o1, o2, o3) ==
    LET s   == ComputeSuffix(naming, v, t)
        sub == <<SubfolderBase, s.suffix>>
        new == sub \o <<name>>
        e1  == EnsureDirectory(dirs, files, cwd, <<SubfolderBase>>, o1)
        c1  == Call("ensure_directory", << <<SubfolderBase>> >>, e1.exc)
        e2  == EnsureDirectory(e1.dirs, files, cwd, sub, o2)
        c2  == Call("ensure_directory", <<sub>>, e2.exc)
        e3  == RenameFile(e2.dirs, files, <<name>>, new, o3)
        c3  == Call("rename_file", << <<name>>, new >>, e3.exc)
    IN  IF e1.exc # "none"
        THEN [exc |-> e1.exc, dirs |-> e1.dirs, files |-> files, calls |-> <<c1>>,
              warn |-> s.warn]
        ELSE IF e2.exc # "none"
        THEN [exc |-> e2.exc, dirs |-> e2.dirs, files |-> files, calls |-> <<c1, c2>>,
              warn |-> s.warn]
        ELSE [exc |-> e3.exc, dirs |-> e2.dirs, files |-> e3.files,
              calls |-> <<c1, c2, c3>>, warn |-> s.warn]

\* create_handler and the dispatch of old_file_handler.handle.
Handle(policy, naming, name, v, t, o1, o2, o3) ==
    IF policy = "delete"
    THEN DeleteHandle(name, v, o3)
    ELSE RenameHandle(naming, name, v, t, o1, o2, o3)

-----------------------------------------------------------------------------
(* ReleaseManager: the entry, the dry run and the version-collision gate.  *)

\* Appends calls to the log.
Logged(cs) == calls' = calls \o cs

\* release without the dry_run test.
ReleaseBranch_NoDryRun(local, dry) ==
    IF local = "absent" THEN "not_found" ELSE "execute"

\* release with the dry_run test before the test that the file exists.
ReleaseBranch_DryFirst(local, dry) ==
    IF dry THEN "dry_run"
    ELSE IF local = "absent" THEN "not_found"
    ELSE "execute"

\* ReleaseManager.release: which way the call goes.
ReleaseBranch(local, dry) ==
    IF local = "absent" THEN "not_found"
    ELSE IF dry THEN "dry_run"
    ELSE "execute"

\* What ReleaseNotesUploader.upload returns before it touches the remote side,
\* None when it goes on to the dry-run preview or to the upload.
EarlyReturn(notes) ==
    IF notes.kind \in {"missing", "file"} THEN Some("False")
    ELSE IF DOMAIN notes.folders = {} THEN Some("True")
    ELSE None

\* A gate that is evaluated only when the backup folder is named by the version.
GateSkipped_ByNaming(policy, v) ==
    ~Truthy(v) \/ policy # "rename" \/ config.naming # "version"

\* The gate without the test of the policy.
GateSkipped_AnyPolicy(policy, v) == ~Truthy(v)

\* _check_version_exists: the two early returns that skip the check.
GateSkipped(policy, v) == ~Truthy(v) \/ policy # "rename"

\* Only an explicit "n" aborts: the empty answer goes on.
Declined_OnlyNo(answer) == Lower(answer) = "n"

\* Every answer aborts.
Declined_Always(answer) == TRUE

\* The answer compared after str.strip.
Declined_Stripped(answer) == Lower(IF answer = " y" THEN "y" ELSE answer) # "y"

\* _check_version_exists: whether an answer aborts the release.
Declined(answer) == Lower(answer) # "y"

Release ==
    /\ pc = "start"
    /\ LET b == ReleaseBranch(localFile, dry_run)
       IN  /\ pc' = CASE b = "not_found" -> "done"
                      [] b = "dry_run" -> "dry"
                      [] OTHER -> "gate"
           /\ result' = IF b = "not_found" THEN "false" ELSE result
    /\ UNCHANGED <<copyTime, polls, exit_code, config, dry_run, version, filename, exc, ftp, wire, cwd, dirs, files, calls,
                   warnings, localFile, exchangeFile, signedFile, netAccessible,
                   elapsed, pollCount, todo, init>>

\* _dry_run_release: it logs the preview and, with release notes configured,
\* runs the uploader in dry-run mode, whose result it drops.
DryRunRelease ==
    /\ pc = "dry"
    /\ IF config.release_notes # None
       THEN LET early == EarlyReturn(config.release_notes[1])
            IN  Logged(<< Call("release_notes.upload", <<>>,
                               IF early # None THEN early[1] ELSE "True") >>)
       ELSE UNCHANGED calls
    /\ result' = "true"
    /\ pc' = "done"
    /\ UNCHANGED <<copyTime, polls, exit_code, config, dry_run, version, filename, exc, ftp, wire, cwd, dirs, files,
                   warnings, localFile, exchangeFile, signedFile, netAccessible,
                   elapsed, pollCount, todo, init>>

\* _check_version_exists up to the entry of the session scope.
CheckVersionExists ==
    /\ pc = "gate"
    /\ IF GateSkipped(config.policy, version)
       THEN /\ pc' = "presign"
            /\ UNCHANGED <<exc, ftp, wire, cwd, dirs, calls>>
       ELSE \E c \in ConnectChoices, outs \in MkdOutcomes(RemotePath) :
              LET r == Connect(c, outs)
              IN  /\ ftp' = r.ftp
                  /\ wire' = r.wire
                  /\ cwd' = r.cwd
                  /\ dirs' = r.dirs
                  /\ exc' = r.exc
                  /\ Logged(<< Call("connect", <<>>, r.exc) >>)
                  /\ pc' = IF r.exc = "none" THEN "gate_check" ELSE "done"
    /\ UNCHANGED <<copyTime, polls, exit_code, config, dry_run, version, filename, result, files, warnings, localFile,
                   exchangeFile, signedFile, netAccessible, elapsed, pollCount, todo, init>>

\* _check_version_exists: directory_exists(version_path) inside the session scope.
GateCheck ==
    /\ pc = "gate_check"
    /\ \E o \in Outcomes :
         LET path == <<SubfolderBase, version[1]>>
             r    == DirectoryExists(path, o)
         IN  /\ Logged(<< Call("directory_exists", <<path>>,
                              IF r.exc # "none" THEN r.exc
                              ELSE IF r.ret THEN "True" ELSE "False") >>)
             /\ exc' = r.exc
             /\ pc' = IF r.exc # "none" THEN OnRaise(pc)
                      ELSE IF r.ret THEN "gate_prompt" ELSE "gate_fin"
             /\ warnings' = IF r.exc = "none" /\ r.ret
                            THEN warnings \cup {"version_folder_exists"}
                            ELSE warnings
    /\ UNCHANGED <<copyTime, polls, exit_code, config, dry_run, version, filename, result, ftp, wire, cwd, dirs, files, localFile,
                   exchangeFile, signedFile, netAccessible, elapsed, pollCount, todo, init>>

\* _check_version_exists: the prompt and the answer.
GatePrompt ==
    /\ pc = "gate_prompt"
    /\ \E a \in Answers :
         /\ Logged(<< Call("input", <<>>, a) >>)
         /\ result' = IF Declined(a) THEN "false" ELSE result
    /\ pc' = "gate_fin"
    /\ UNCHANGED <<copyTime, polls, exit_code, config, dry_run, version, filename, exc, ftp, wire, cwd, dirs, files, warnings,
                   localFile, exchangeFile, signedFile, netAccessible, elapsed,
                   pollCount, todo, init>>

\* The exit of the gate's session scope: disconnect, then the pending
\* exception or return, or on to pre-signing.
GateDisconnect ==
    /\ pc = "gate_fin"
    /\ \E q \in QuitOutcomes :
         LET r == Disconnect(q)
         IN  /\ ftp' = r.ftp
             /\ wire' = r.wire
             /\ Logged(<< Call("disconnect", <<>>, q) >>)
    /\ pc' = IF exc # "none" \/ result # "none" THEN "done" ELSE "presign"
    /\ UNCHANGED <<copyTime, polls, exit_code, config, dry_run, version, filename, result, exc, cwd, dirs, files, warnings,
                   localFile, exchangeFile, signedFile, netAccessible, elapsed,
                   pollCount, todo, init>>

-----------------------------------------------------------------------------
(* PreSigner.                                                              *)

\* PreSignConfig.expected_signer.
ExpectedSigner == "XIDA GmbH"

\* What _get_signature can return for a file in the signed directory: None, or
\* the CN of the signer's certificate.
Signers == {None, Some(""), Some(ExpectedSigner), Some("xida gmbh"), Some("Other Corp")}

\* What a poll can find at network_path_signed/filename: no file, or a file
\* with one of the signers above.
SignedStates == {None} \cup { Some(sg) : sg \in Signers }

\* The timeout test letting one more poll start at the timeout itself.
TimedOut_Late(e, timeout) == e > timeout

\* _wait_for_signature: the timeout test at the head of the loop.
TimedOut(e, timeout) == e >= timeout

\* Any signer read ends the wait, whoever it is.
SignatureVerified_AnySigner(signer) == Truthy(signer)

\* A file whose signer cannot be read taken as signed.
SignatureVerified_Unsigned(signer) == ~Truthy(signer) \/ signer[1] = ExpectedSigner

\* str.lower on the signers above.
SignerLower(s) == IF s = "XIDA GmbH" THEN "xida gmbh" ELSE s

\* The signer compared without regard to case.
SignatureVerified_IgnoreCase(signer) ==
    Truthy(signer) /\ SignerLower(signer[1]) = SignerLower(ExpectedSigner)

\* _wait_for_signature: whether the signer read ends the wait.
SignatureVerified(signer) == Truthy(signer) /\ signer[1] = ExpectedSigner

\* Where control goes when process raises without being caught.
OnPreSignError_Swallowed == "connect"

\* _execute_release has no handler around pre_signer.process: a PreSignError
\* leaves _execute_release and release at once.
OnPreSignError == "done"

\* The messages of the PreSignErrors process raises.
MsgNotAccessible == "Network path not accessible"
MsgCopyFailed == "Failed to copy file to network"
MsgTimeout == "Timeout waiting for signature"
MsgMoveBackFailed == "Failed to move signed file back"

\* The record of process raising PreSignError(msg), of process returning path.
ProcessRaise(msg) == Call("pre_signer.process.raise", << <<filename>> >>, msg)

ProcessReturn(path) == Call("pre_signer.process.return", << <<filename>> >>, path)

\* The wait counting from the start of the copy.
WaitStart_FromCopy(d) == d

\* _wait_for_signature reads start_time when it is entered, after
\* _copy_to_network has returned: what elapsed is at the first timeout test
\* when the copy took d seconds.
WaitStart(d) == 0

\* The copy tried without the test that the exchange location is there.
CopyFailed_NoAccessTest(accessible, copy) == copy = "oserr"

\* _copy_to_network: it raises when network_path does not exist, and when
\* shutil.copy2 raises OSError.
CopyFailed(accessible, copy) == ~accessible \/ copy = "oserr"

\* process, up to the end of _copy_to_network.
PreSignCopy ==
    /\ pc = "presign"
    /\ IF config.pre_sign = None
       THEN /\ pc' = "connect"
            /\ UNCHANGED <<exc, calls, exchangeFile>>
       ELSE \E copy \in {"ok", "oserr"} :
              LET failed == CopyFailed(netAccessible, copy)
              IN  /\ exc' = IF failed THEN "PreSignError" ELSE "none"
                  /\ exchangeFile' = IF failed THEN exchangeFile ELSE localFile
                  /\ Logged(<< Call("pre_signer.process", << <<filename>> >>, "started") >>
                            \o IF ~failed THEN << >>
                               ELSE IF ~netAccessible THEN << ProcessRaise(MsgNotAccessible) >>
                               ELSE << ProcessRaise(MsgCopyFailed) >>)
                  /\ pc' = IF failed THEN OnPreSignError ELSE "ps_wait"
    /\ elapsed' = WaitStart(copyTime)
    /\ pollCount' = 0
    /\ polls' = << >>
    /\ UNCHANGED <<copyTime, exit_code, config, dry_run, version, filename, result, ftp, wire, cwd, dirs,
                   files, warnings, localFile, signedFile, netAccessible, todo, init>>

\* One turn of the loop of _wait_for_signature: the timeout test, the look at
\* the signed directory, and the sleep when the wait goes on.
PreSignPoll ==
    /\ pc = "ps_wait"
    /\ IF TimedOut(elapsed, config.pre_sign[1].timeout)
       THEN /\ exc' = "PreSignError"
            /\ pc' = OnPreSignError
            /\ Logged(<< ProcessRaise(MsgTimeout) >>)
            /\ UNCHANGED <<pollCount, polls, signedFile, elapsed>>
       ELSE \E found \in SignedStates, over \in 0..MaxOverrun :
              /\ pollCount' = pollCount + 1
              /\ polls' = Append(polls, [at |-> elapsed, found |-> found])
              /\ signedFile' = found
              /\ IF found # None /\ SignatureVerified(found[1])
                 THEN /\ pc' = "ps_back"
                      /\ UNCHANGED elapsed
                 ELSE /\ pc' = "ps_wait"
                      /\ elapsed' = elapsed + config.pre_sign[1].poll_interval + over
              /\ UNCHANGED <<exc, calls>>
    /\ UNCHANGED <<copyTime, exit_code, config, dry_run, version, filename, result, ftp, wire, cwd, dirs,
                   files, warnings, localFile, exchangeFile, netAccessible, todo, init>>

\* How _move_back can go: through, with the exchange copy still there or
\* already taken away; or failing at the copy over the original, at the unlink
\* of the signed copy, or at the unlink of the exchange copy.
MoveBackChoices == {"ok", "exchange_gone", "copy_fails", "unlink_signed_fails",
                    "unlink_exchange_fails"}

\* _move_back cleaning up the two copies before it overwrites the original.
MoveBackSteps_CleanFirst(m) ==
    LET copy   == Call("copy2", <<"signed", "original">>,
                       IF m = "copy_fails" THEN "OSError" ELSE "none")
        unlink == Call("unlink", <<"signed">>,
                       IF m = "unlink_signed_fails" THEN "OSError" ELSE "none")
        clean  == Call("unlink", <<"exchange">>,
                       IF m = "unlink_exchange_fails" THEN "OSError" ELSE "none")
    IN  CASE m = "unlink_exchange_fails" -> <<clean>>
          [] m = "unlink_signed_fails" -> <<clean, unlink>>
          [] m = "exchange_gone" -> <<unlink, copy>>
          [] OTHER -> <<clean, unlink, copy>>

\* The file-system calls of _move_back, in the order it makes them, the last
\* one failing when m is a failure.
MoveBackSteps(m) ==
    LET copy   == Call("copy2", <<"signed", "original">>,
                       IF m = "copy_fails" THEN "OSError" ELSE "none")
        unlink == Call("unlink", <<"signed">>,
                       IF m = "unlink_signed_fails" THEN "OSError" ELSE "none")
        clean  == Call("unlink", <<"exchange">>,
                       IF m = "unlink_exchange_fails" THEN "OSError" ELSE "none")
    IN  CASE m = "copy_fails" -> <<copy>>
          [] m \in {"unlink_signed_fails", "exchange_gone"} -> <<copy, unlink>>
          [] OTHER -> <<copy, unlink, clean>>

\* _move_back, and the return of process.
PreSignMoveBack ==
    /\ pc = "ps_back"
    /\ \E m \in MoveBackChoices :
         LET through == m \in {"ok", "exchange_gone"}
         IN  /\ localFile' = IF m = "copy_fails" THEN localFile ELSE "signed"
             /\ signedFile' = IF m \in {"copy_fails", "unlink_signed_fails"}
                              THEN signedFile ELSE None
             /\ exchangeFile' = IF through THEN "absent" ELSE exchangeFile
             /\ exc' = IF through THEN "none" ELSE "PreSignError"
             /\ Logged(MoveBackSteps(m)
                       \o IF through THEN << ProcessReturn(filename) >>
                          ELSE << ProcessRaise(MsgMoveBackFailed) >>)
             /\ pc' = IF through THEN "connect" ELSE OnPreSignError
    /\ elapsed' = 0
    /\ pollCount' = 0
    /\ polls' = << >>
    /\ UNCHANGED <<copyTime, exit_code, config, dry_run, version, filename, result, ftp, wire, cwd, dirs,
                   files, warnings, netAccessible, todo, init>>

-----------------------------------------------------------------------------
(* ReleaseManager._execute_release: the main session.                      *)

\* The upload without a look at what file_exists said.
NextAfterExists_Blind(exists) == "upload"

\* The branch on file_exists the wrong way round.
NextAfterExists_Swapped(exists) == IF exists THEN "upload" ELSE "handle"

\* The release-notes sync in the place of the upload of a new file.
NextAfterExists_NotesFirst(exists) == IF exists THEN "handle" ELSE "notes"

\* The branch of _execute_release on file_exists.
NextAfterExists(exists) == IF exists THEN "handle" ELSE "upload"

\* The entry of the main session scope: connect.
MainConnect ==
    /\ pc = "connect"
    /\ \E c \in ConnectChoices, outs \in MkdOutcomes(RemotePath) :
         LET r == Connect(c, outs)
         IN  /\ ftp' = r.ftp
             /\ wire' = r.wire
             /\ cwd' = r.cwd
             /\ dirs' = r.dirs
             /\ exc' = r.exc
             /\ Logged(<< Call("connect", <<>>, r.exc) >>)
             /\ pc' = IF r.exc = "none" THEN "exists" ELSE "done"
    /\ UNCHANGED <<copyTime, polls, exit_code, config, dry_run, version, filename, result, files, warnings, localFile,
                   exchangeFile, signedFile, netAccessible, elapsed, pollCount, todo, init>>

\* client.file_exists(filename) and the branch on it.
CheckExists ==
    /\ pc = "exists"
    /\ \E o \in {"ok", "oserr"} :
         LET r == FileExists(filename, o)
         IN  /\ Logged(<< Call("file_exists", << <<filename>> >>,
                              IF r.exc # "none" THEN r.exc
                              ELSE IF r.ret THEN "True" ELSE "False") >>)
             /\ exc' = r.exc
             /\ pc' = IF r.exc # "none" THEN OnRaise(pc) ELSE NextAfterExists(r.ret)
    /\ UNCHANGED <<copyTime, polls, exit_code, config, dry_run, version, filename, result, ftp, wire, cwd, dirs, files, warnings,
                   localFile, exchangeFile, signedFile, netAccessible, elapsed,
                   pollCount, todo, init>>

\* old_file_handler.handle(client, filename, version).
HandleOldFile ==
    /\ pc = "handle"
    /\ \E t \in Times, o1 \in MkdOutcomes(<<SubfolderBase>>),
          o2 \in MkdOutcomes(<<SubfolderBase, "suffix">>), o3 \in Outcomes :
         LET r == Handle(config.policy, config.naming, filename, version, t, o1, o2, o3)
         IN  /\ dirs' = r.dirs
             /\ files' = r.files
             /\ exc' = r.exc
             /\ warnings' = IF r.warn THEN warnings \cup {"no_version_fallback"}
                            ELSE warnings
             /\ Logged(<< Call("handle", << <<filename>>, version >>, "called") >>
                       \o r.calls
                       \o IF r.exc = "none"
                          THEN << Call("handle", << <<filename>>, version >>, "returned") >>
                          ELSE << >>)
             /\ pc' = IF r.exc = "none" THEN "upload" ELSE OnRaise(pc)
    /\ UNCHANGED <<copyTime, polls, exit_code, config, dry_run, version, filename, result, ftp, wire, cwd, localFile,
                   exchangeFile, signedFile, netAccessible, elapsed, pollCount, todo, init>>

\* client.upload_file(file_path).
UploadArtifact ==
    /\ pc = "upload"
    /\ \E o \in UploadOutcomes :
         LET r == UploadFile(dirs, files, cwd, filename, localFile, o)
         IN  /\ files' = r.files
             /\ exc' = r.exc
             /\ Logged(<< Call("upload_file", << <<filename>> >>, r.exc) >>)
             /\ pc' = IF r.exc = "none" THEN "notes" ELSE OnRaise(pc)
    /\ UNCHANGED <<copyTime, polls, exit_code, config, dry_run, version, filename, result, ftp, wire, cwd, dirs, warnings,
                   localFile, exchangeFile, signedFile, netAccessible, elapsed,
                   pollCount, todo, init>>

\* A release that returns what the release-notes sync returned.
ExecuteResult_FromSync ==
    IF \E i \in 1..Len(calls) :
          calls[i].op = "release_notes.upload" /\ calls[i].ret = "False"
    THEN "false" ELSE "true"

\* _execute_release: the value returned after the session scope (return True).
ExecuteResult == "true"

\* The exit of the main session scope: disconnect, then the pending exception,
\* or the return of True.
MainDisconnect ==
    /\ pc = "main_fin"
    /\ \E q \in QuitOutcomes :
         LET r == Disconnect(q)
         IN  /\ ftp' = r.ftp
             /\ wire' = r.wire
             /\ Logged(<< Call("disconnect", <<>>, q) >>)
    /\ result' = IF exc = "none" THEN ExecuteResult ELSE result
    /\ pc' = "done"
    /\ UNCHANGED <<copyTime, polls, exit_code, config, dry_run, version, filename, exc, cwd, dirs, files, warnings,
                   localFile, exchangeFile, signedFile, netAccessible, elapsed,
                   pollCount, todo, init>>

-----------------------------------------------------------------------------
(* ReleaseNotesUploader.  The local notes directory is config.release_notes *)
(* .kind ("missing", "file" or "dir") and .folders: the name of each        *)
(* subdirectory -> its entries [name, file]; .remote is remote_path, as     *)
(* [abs, parts].                                                            *)

\* The order of the folder names (list.sort).
FolderOrder == <<"v1", "v2">>

\* The names of the subdirectories in the reverse of the sorted order.
LocalFolders_Unsorted(notes) ==
    SelectSeq(<<FolderOrder[2], FolderOrder[1]>>, LAMBDA x : x \in DOMAIN notes.folders)

\* _get_local_folders: the names of the subdirectories, sorted.
LocalFolders(notes) == SelectSeq(FolderOrder, LAMBDA x : x \in DOMAIN notes.folders)

\* The elements of a set in the order they are met (iterdir, a listing).
RECURSIVE SetToSeq(_)
SetToSeq(S) == IF S = {} THEN << >>
               ELSE LET x == CHOOSE y \in S : TRUE IN <<x>> \o SetToSeq(S \ {x})

\* A path given to the server, from working directory c.
Resolve(c, path) == IF path.abs THEN path.parts ELSE c \o path.parts

\* FTPClient.change_directory(path) from directory c of store d: [exc, cwd].
ChangeDirectory(d, c, path, o) ==
    IF NotConnected \/ o # "ok" \/ Resolve(c, path) \notin d
    THEN [exc |-> "FTPError", cwd |-> c]
    ELSE [exc |-> "none", cwd |-> Resolve(c, path)]

\* FTPClient.list_directories() in directory c of store d: [exc, ret].
ListDirectories(d, c, o) ==
    IF NotConnected \/ o # "ok" THEN [exc |-> "FTPError", ret |-> {}]
    ELSE [exc |-> "none", ret |-> { x[Len(x)] : x \in { y \in d : y # <<>> /\ Parent(y) = c } }]

\* What a listing that failed is taken for: every local folder already there.
ListingFallback_AllPresent == {"v1", "v2"}

\* _get_remote_folders: what it returns when the change of directory or the
\* listing raised (return []).
ListingFallback == {}

\* _get_remote_folders: any failure gives the empty list.  [ret, cwd, calls];
\* the record of list_directories keeps, as its argument, the names it returned.
GetRemoteFolders(notes, o1, o2) ==
    LET cd == ChangeDirectory(dirs, cwd, notes.remote, o1)
        ls == ListDirectories(dirs, cd.cwd, o2)
    IN  IF cd.exc # "none" THEN [ret |-> ListingFallback, cwd |-> cwd, calls |->
            << Call("change_directory", <<notes.remote.parts>>, cd.exc) >>]
        ELSE [ret |-> IF ls.exc = "none" THEN ls.ret ELSE ListingFallback, cwd |-> cd.cwd, calls |->
            << Call("change_directory", <<notes.remote.parts>>, cd.exc),
               Call("list_directories",
                    << IF ls.exc = "none" THEN SetToSeq(ls.ret) ELSE << >> >>, ls.exc) >>]

\* Every local folder taken as new, whatever the remote side has.
NewFolders_All(local, remote) == local

\* _execute_upload: the new folders.
NewFolders(local, remote) == SelectSeq(local, LAMBDA x : x \notin remote)

\* The regular files directly inside a local folder.
RegularFiles(notes, folder) == { e.name : e \in { x \in notes.folders[folder] : x.file } }

\* The uploads of the files sent into directory c, in turn.  [files, calls].
RECURSIVE UploadAll(_, _, _, _)
UploadAll(d, f, c, names) ==
    IF names = << >> THEN [files |-> f, calls |-> << >>]
    ELSE LET r    == UploadFile(d, f, c, Head(names), "notes", "ok")
             rest == UploadAll(d, r.files, c, Tail(names))
         IN  [files |-> rest.files,
              calls |-> << Call("upload_file", << <<Head(names)>> >>, r.exc) >> \o rest.calls]

\* upload, up to the first ensure_directory of _execute_upload.
NotesStart ==
    /\ pc = "notes"
    /\ IF config.release_notes = None
       THEN /\ pc' = "main_fin"
            /\ UNCHANGED <<exc, dirs, calls>>
       ELSE LET notes == config.release_notes[1]
                early == EarlyReturn(notes)
            IN  IF early # None
                THEN /\ pc' = "main_fin"
                     /\ Logged(<< Call("release_notes.upload", <<>>, early[1]) >>)
                     /\ UNCHANGED <<exc, dirs>>
                ELSE \E outs \in MkdOutcomes(notes.remote.parts) :
                       LET r == EnsureDirectory(dirs, files, cwd, notes.remote.parts, outs)
                       IN  /\ dirs' = r.dirs
                           /\ exc' = r.exc
                           /\ Logged(<< Call("ensure_directory", <<notes.remote.parts>>, r.exc) >>)
                           /\ pc' = IF r.exc = "none" THEN "rn_list" ELSE OnRaise(pc)
    /\ UNCHANGED <<copyTime, polls, exit_code, config, dry_run, version, filename, result, ftp, wire, cwd, files, warnings,
                   localFile, exchangeFile, signedFile, netAccessible, elapsed,
                   pollCount, todo, init>>

\* _execute_upload: _get_remote_folders and the choice of the new folders.
NotesList ==
    /\ pc = "rn_list"
    /\ \E o1 \in Outcomes, o2 \in Outcomes :
         LET notes == config.release_notes[1]
             r     == GetRemoteFolders(notes, o1, o2)
             new   == NewFolders(LocalFolders(notes), r.ret)
         IN  /\ cwd' = r.cwd
             /\ todo' = new
             /\ Logged(r.calls \o IF new = << >>
                                  THEN << Call("release_notes.upload", <<>>, "True") >>
                                  ELSE << >>)
             /\ pc' = IF new = << >> THEN "main_fin" ELSE "rn_folder"
    /\ UNCHANGED <<copyTime, polls, exit_code, config, dry_run, version, filename, result, exc, ftp, wire, dirs, files, warnings,
                   localFile, exchangeFile, signedFile, netAccessible, elapsed,
                   pollCount, init>>

\* _execute_upload: one turn of the loop over the new folders: the remote
\* directory, the change into it, and the upload of the folder's files, of
\* which those in sent go through before the upload of bad fails (none fails
\* if all are sent).
NotesFolder ==
    /\ pc = "rn_folder"
    /\ LET notes  == config.release_notes[1]
           folder == Head(todo)
           target == [abs |-> notes.remote.abs, parts |-> notes.remote.parts \o <<folder>>]
           all    == RegularFiles(notes, folder)
       IN  \E outs \in MkdOutcomes(target.parts), o \in Outcomes, sent \in SUBSET all :
           \E bad \in IF sent = all THEN {"-"} ELSE all \ sent :
             LET e  == EnsureDirectory(dirs, files, cwd, target.parts, outs)
                 cd == ChangeDirectory(e.dirs, cwd, target, o)
                 up == UploadAll(e.dirs, files, cd.cwd, SetToSeq(sent))
                 c1 == << Call("ensure_directory", <<target.parts>>, e.exc) >>
                 c2 == << Call("change_directory", <<target.parts>>, cd.exc) >>
                 last == Len(todo) = 1
             IN  /\ dirs' = e.dirs
                 /\ IF e.exc # "none"
                    THEN /\ exc' = e.exc
                         /\ Logged(c1)
                         /\ pc' = OnRaise(pc)
                         /\ UNCHANGED <<cwd, files, todo>>
                    ELSE IF cd.exc # "none"
                    THEN /\ exc' = cd.exc
                         /\ Logged(c1 \o c2)
                         /\ pc' = OnRaise(pc)
                         /\ UNCHANGED <<cwd, files, todo>>
                    ELSE /\ cwd' = cd.cwd
                         /\ files' = up.files
                         /\ exc' = IF sent = all THEN "none" ELSE "FTPError"
                         /\ todo' = IF sent = all THEN Tail(todo) ELSE todo
                         /\ Logged(c1 \o c2 \o up.calls
                                   \o (IF sent = all THEN << >>
                                       ELSE << Call("upload_file", << <<bad>> >>, "FTPError") >>)
                                   \o (IF sent = all /\ last
                                       THEN << Call("release_notes.upload", <<>>, "True") >>
                                       ELSE << >>))
                         /\ pc' = IF sent # all THEN OnRaise(pc)
                                  ELSE IF last THEN "main_fin" ELSE "rn_folder"
    /\ UNCHANGED <<copyTime, polls, exit_code, config, dry_run, version, filename, result, ftp, wire, warnings,
                   localFile, exchangeFile, signedFile, netAccessible, elapsed,
                   pollCount, init>>

-----------------------------------------------------------------------------
(* The operator's interrupt, the initial states and the specification.     *)

\* Where control is inside the gate's session scope, and inside the main one.
InGateScope == {"gate_check", "gate_prompt"}

InMainScope == {"exists", "handle", "upload", "notes", "rn_list", "rn_folder"}

InPreSign == {"ps_wait", "ps_back"}

\* KeyboardInterrupt: inside a session scope it runs the scope's exit first.
Interrupt ==
    /\ pc \in InGateScope \cup InMainScope \cup InPreSign
    /\ exc' = "KeyboardInterrupt"
    /\ pc' = IF pc \in InPreSign THEN "done" ELSE OnRaise(pc)
    /\ UNCHANGED <<copyTime, polls, exit_code, config, dry_run, version, filename, result, ftp, wire, cwd, dirs, files, calls,
                   warnings, localFile, exchangeFile, signedFile, netAccessible,
                   elapsed, pollCount, todo, init>>

Artifact(name) == RemotePath \o <<name>>

BackupDir == RemotePath \o <<SubfolderBase>>

VersionDir == BackupDir \o <<"1.0.0">>

\* The remote stores a release can find.
InitialStores(name) ==
    { [dirs |-> {<<>>}, files |-> << >>],
      [dirs |-> {<<>>, RemotePath}, files |-> << >>],
      [dirs |-> {<<>>, RemotePath}, files |-> [p \in {Artifact(name)} |-> "old"]],
      [dirs |-> {<<>>, RemotePath, BackupDir}, files |-> [p \in {Artifact(name)} |-> "old"]],
      [dirs |-> {<<>>, RemotePath, BackupDir, VersionDir}, files |-> << >>],
      [dirs |-> {<<>>, RemotePath, BackupDir, VersionDir},
       files |-> [p \in {Artifact(name), VersionDir \o <<name>>} |->
                    IF p = Artifact(name) THEN "old" ELSE "older"]],
      [dirs |-> {<<>>, RemotePath, <<"notes">>, <<"notes", "v1">>},
       files |-> [p \in {Artifact(name)} |-> "old"]] }

\* The pre-sign settings tried: a wait of up to MaxTimeout seconds polled every
\* second, and a timeout of zero.
PreSignConfigs ==
    { [poll_interval |-> 1, timeout |-> MaxTimeout], [poll_interval |-> 2, timeout |-> 0] }

\* The local release-notes directories and remote notes paths tried.
NotesConfigs ==
    { [kind |-> "missing", folders |-> << >>, remote |-> [abs |-> TRUE, parts |-> <<"notes">>]] }
    \cup
    { [kind |-> "dir",
       folders |-> [x \in {"v1", "v2"} |->
                      IF x = "v1" THEN {[name |-> "a.md", file |-> TRUE]}
                      ELSE {[name |-> "b.md", file |-> TRUE], [name |-> "img", file |-> FALSE]}],
       remote |-> [abs |-> a, parts |-> <<"notes">>]] : a \in BOOLEAN }

Configs ==
    [policy : {"delete", "rename"}, naming : {"timestamp", "version"},
     pre_sign : {None} \cup { Some(c) : c \in PreSignConfigs },
     release_notes : {None} \cup { Some(n) : n \in NotesConfigs }]

Init ==
    /\ config \in Configs
    /\ dry_run \in BOOLEAN
    /\ version \in Versions
    /\ localFile \in {"absent", "unsigned"}
    /\ netAccessible \in IF config.pre_sign = None THEN {TRUE} ELSE BOOLEAN
    /\ filename = "app.exe"
    /\ \E s \in InitialStores(filename) :
         /\ dirs = s.dirs
         /\ files = s.files
         /\ init = [dirs |-> s.dirs, files |-> s.files, localFile |-> localFile]
    /\ pc = "start"
    /\ result = "none"
    /\ exc = "none"
    /\ ftp = "None"
    /\ wire = "closed"
    /\ cwd = <<>>
    /\ calls = << >>
    /\ warnings = {}
    /\ exchangeFile = "absent"
    /\ signedFile = None
    /\ elapsed = 0
    /\ pollCount = 0
    /\ todo = << >>
    /\ exit_code = None
    /\ polls = << >>
    /\ copyTime = 0

Next ==
    \/ Release
    \/ DryRunRelease
    \/ CheckVersionExists
    \/ GateCheck
    \/ GatePrompt
    \/ GateDisconnect
    \/ PreSignCopy
    \/ PreSignPoll
    \/ PreSignMoveBack
    \/ MainConnect
    \/ CheckExists
    \/ HandleOldFile
    \/ UploadArtifact
    \/ NotesStart
    \/ NotesList
    \/ NotesFolder
    \/ MainDisconnect
    \/ Interrupt

Spec == Init /\ [][Next]_vars

-----------------------------------------------------------------------------
(* The entry point: cli.run around one call of release.                    *)

\* exceptions.py: the classes an exception of each class is an instance of.
\* "OSError" stands for what ftplib and the socket raise that is no
\* release-tool error: ftplib.error_temp, OSError, EOFError.
Bases(e) ==
    CASE e \in {"ConfigurationError", "FTPError", "PreSignError", "VersionExistsError"}
            -> {e, "ReleaseToolError", "Exception"}
      [] e = "ReleaseToolError" -> {e, "Exception"}
      [] e \in {"OSError", "AttributeError"} -> {e, "Exception"}
      [] OTHER -> {e}

\* The except clauses of run, in the order they are tried: class, exit code.
ExceptClauses ==
    << [cls |-> "ConfigurationError", code |-> 2],
       [cls |-> "FTPError", code |-> 3],
       [cls |-> "ReleaseToolError", code |-> 1],
       [cls |-> "KeyboardInterrupt", code |-> 130] >>

\* The first clause from the i-th on that catches e: its code, None if none does.
RECURSIVE Caught(_, _)
Caught(e, i) ==
    IF i > Len(ExceptClauses) THEN None
    ELSE IF ExceptClauses[i].cls \in Bases(e) THEN Some(ExceptClauses[i].code)
    ELSE Caught(e, i + 1)

\* run: the exit code it returns for what release returned (res) or for the
\* exception raised inside the try block (e); None when the exception is not
\* caught and leaves run.
RunExit(res, e) ==
    IF e # "none" THEN Caught(e, 1)
    ELSE IF res = "true" THEN Some(0) ELSE Some(1)

\* ReleaseConfig.from_ini_file raises: no manager is made, release is not called.
LoadConfigFails ==
    /\ pc = "start"
    /\ exc' = "ConfigurationError"
    /\ pc' = "config_error"
    /\ UNCHANGED <<copyTime, polls, exit_code, config, dry_run, version, filename, result, ftp, wire, cwd, dirs,
                   files, calls, warnings, localFile, exchangeFile, signedFile,
                   netAccessible, elapsed, pollCount, todo, init>>

\* run returns its exit code, or the exception it does not catch leaves it.
RunReturn ==
    /\ pc \in {"done", "config_error"}
    /\ exit_code' = RunExit(result, exc)
    /\ pc' = IF RunExit(result, exc) = None THEN "run_raised" ELSE "exited"
    /\ UNCHANGED <<copyTime, polls, config, dry_run, version, filename, result, exc, ftp, wire, cwd, dirs,
                   files, calls, warnings, localFile, exchangeFile, signedFile,
                   netAccessible, elapsed, pollCount, todo, init>>

NextRun ==
    \/ LoadConfigFails
    \/ Next
    \/ RunReturn

SpecRun == Init /\ [][NextRun]_vars

-----------------------------------------------------------------------------
(* The release-notes sync on its own: upload called on a connected client   *)
(* in remote_path, for every kind of local notes directory and a range of   *)
(* remote stores, and called once more, in a new session, after it returned. *)

NotesDir == RemotePath \o <<"notes">>

\* The remote stores a sync can find: the notes directory missing, empty, or
\* holding some of the version folders, below remote_path or below the root.
NotesStores ==
    { [dirs |-> {<<>>, RemotePath} \cup extra, files |-> << >>] :
        extra \in { {},
                    {NotesDir},
                    {NotesDir, NotesDir \o <<"v1">>},
                    {NotesDir, NotesDir \o <<"v1">>, NotesDir \o <<"v2">>},
                    {<<"notes">>, <<"notes", "v1">>} } }

\* The local notes directories of NotesConfigs, and with them a path that is a
\* file and a directory without subfolders.
NotesConfigsAll ==
    NotesConfigs
    \cup { [kind |-> k, folders |-> << >>, remote |-> [abs |-> FALSE, parts |-> <<"notes">>]] :
             k \in {"file", "dir"} }

InitNotes ==
    /\ config \in [policy : {"delete"}, naming : {"timestamp"}, pre_sign : {None},
                   release_notes : { Some(n) : n \in NotesConfigsAll }]
    /\ dry_run = FALSE
    /\ version = None
    /\ filename = "app.exe"
    /\ localFile = "unsigned"
    /\ netAccessible = TRUE
    /\ \E s \in NotesStores :
         /\ dirs = s.dirs
         /\ files = s.files
         /\ init = [dirs |-> s.dirs, files |-> s.files, localFile |-> localFile]
    /\ pc = "notes"
    /\ result = "none"
    /\ exc = "none"
    /\ ftp = "handle"
    /\ wire = "open"
    /\ cwd = RemotePath
    /\ calls = << >>
    /\ warnings = {}
    /\ exchangeFile = "absent"
    /\ signedFile = None
    /\ elapsed = 0
    /\ pollCount = 0
    /\ todo = << >>
    /\ exit_code = None
    /\ polls = << >>
    /\ copyTime = 0

\* The sync run once more after it returned: a new session, which starts in
\* remote_path, on the remote store the first run left.
SyncAgain ==
    /\ pc = "main_fin"
    /\ exc = "none"
    /\ CallsOf("sync_again") = {}
    /\ cwd' = RemotePath
    /\ todo' = << >>
    /\ pc' = "notes"
    /\ Logged(<< Call("sync_again", <<>>, "started") >>)
    /\ UNCHANGED <<copyTime, polls, exit_code, config, dry_run, version, filename, result, exc, ftp, wire,
                   dirs, files, warnings, localFile, exchangeFile, signedFile,
                   netAccessible, elapsed, pollCount, init>>

\* The sync retried after it was aborted by an exception: a new session, which
\* starts in remote_path, on the remote store the aborted run left; the record
\* keeps the directory tree that run left.
SyncRetry ==
    /\ pc = "main_fin"
    /\ exc # "none"
    /\ CallsOf("sync_again") = {}
    /\ exc' = "none"
    /\ cwd' = RemotePath
    /\ todo' = << >>
    /\ pc' = "notes"
    /\ Logged(<< Call("sync_again", <<dirs>>, "retried") >>)
    /\ UNCHANGED <<copyTime, polls, exit_code, config, dry_run, version, filename, result, ftp, wire,
                   dirs, files, warnings, localFile, exchangeFile, signedFile,
                   netAccessible, elapsed, pollCount, init>>

NextNotes ==
    \/ NotesStart
    \/ NotesList
    \/ NotesFolder
    \/ SyncAgain
    \/ SyncRetry

SpecNotes == InitNotes /\ [][NextNotes]_vars

-----------------------------------------------------------------------------
(* The old-file handler on its own: handle called on a connected client in *)
(* whose working directory the file exists, for every policy, naming,      *)
(* version and file name.                                                  *)

InitHandler ==
    /\ config \in [policy : {"delete", "rename"}, naming : {"timestamp", "version"},
                   pre_sign : {None}, release_notes : {None}]
    /\ dry_run = FALSE
    /\ version \in Versions
    /\ filename \in FileNames
    /\ localFile = "unsigned"
    /\ netAccessible = TRUE
    /\ \E s \in { x \in InitialStores(filename) : Artifact(filename) \in DOMAIN x.files } :
         /\ dirs = s.dirs
         /\ files = s.files
         /\ init = [dirs |-> s.dirs, files |-> s.files, localFile |-> localFile]
    /\ pc = "handle"
    /\ result = "none"
    /\ exc = "none"
    /\ ftp = "handle"
    /\ wire = "open"
    /\ cwd = RemotePath
    /\ calls = << >>
    /\ warnings = {}
    /\ exchangeFile = "absent"
    /\ signedFile = None
    /\ elapsed = 0
    /\ pollCount = 0
    /\ todo = << >>
    /\ exit_code = None
    /\ polls = << >>
    /\ copyTime = 0

NextHandler == HandleOldFile

SpecHandler == InitHandler /\ [][NextHandler]_vars

-----------------------------------------------------------------------------
(* The pre-signer on its own: process called on an unsigned artifact, for   *)
(* every poll interval and timeout tried and every duration of the copy.    *)

\* The waits tried: polled every second or every other second, for up to
\* MaxTimeout seconds.
WaitConfigs == [poll_interval : 1..2, timeout : 0..MaxTimeout]

InitPreSign ==
    /\ config \in [policy : {"delete"}, naming : {"timestamp"},
                   pre_sign : { Some(c) : c \in WaitConfigs }, release_notes : {None}]
    /\ dry_run = FALSE
    /\ version = None
    /\ filename = "app.exe"
    /\ localFile = "unsigned"
    /\ netAccessible \in BOOLEAN
    /\ dirs = {<<>>, RemotePath}
    /\ files = << >>
    /\ init = [dirs |-> dirs, files |-> files, localFile |-> localFile]
    /\ pc = "presign"
    /\ result = "none"
    /\ exc = "none"
    /\ ftp = "None"
    /\ wire = "closed"
    /\ cwd = << >>
    /\ calls = << >>
    /\ warnings = {}
    /\ exchangeFile = "absent"
    /\ signedFile = None
    /\ elapsed = 0
    /\ pollCount = 0
    /\ todo = << >>
    /\ exit_code = None
    /\ polls = << >>
    /\ copyTime \in 0..MaxCopyTime

\* The operator's interrupt during process.
PreSignInterrupt == pc \in InPreSign /\ Interrupt

NextPreSign ==
    \/ PreSignCopy
    \/ PreSignPoll
    \/ PreSignMoveBack
    \/ PreSignInterrupt

SpecPreSign == InitPreSign /\ [][NextPreSign]_vars

\* The loop of _wait_for_signature has no other blocking point than its sleep:
\* a turn that can be taken is taken.
SpecWait == SpecPreSign /\ WF_vars(PreSignPoll)

-----------------------------------------------------------------------------
(* ensure_directory on its own: called up to MaxEnsureCalls times in a row  *)
(* with the same path, from the same working directory of a session, on     *)
(* every store tried.  Each call is logged with the path, with what the     *)
(* server did with each MKD, and with the directory tree it left.           *)

MaxEnsureCalls == 2

\* The paths tried: one and two components, new, partly there, and through a
\* name that is a file.
EnsurePaths == { <<SubfolderBase>>, <<SubfolderBase, "1.0.0">>, <<"notes", "v1">>,
                 <<"app.exe", "x">> }

InitEnsure ==
    /\ config = [policy |-> "rename", naming |-> "version", pre_sign |-> None,
                 release_notes |-> None]
    /\ dry_run = FALSE
    /\ version = None
    /\ filename = "app.exe"
    /\ localFile = "unsigned"
    /\ netAccessible = TRUE
    /\ \E s \in InitialStores(filename) :
         /\ dirs = s.dirs
         /\ files = s.files
         /\ init = [dirs |-> s.dirs, files |-> s.files, localFile |-> localFile]
    /\ cwd \in { c \in {<< >>, RemotePath} : c \in dirs }
    /\ pc = "ensure"
    /\ result = "none"
    /\ exc = "none"
    /\ ftp = "handle"
    /\ wire = "open"
    /\ calls = << >>
    /\ warnings = {}
    /\ exchangeFile = "absent"
    /\ signedFile = None
    /\ elapsed = 0
    /\ pollCount = 0
    /\ todo = << >>
    /\ exit_code = None
    /\ polls = << >>
    /\ copyTime = 0

EnsureCall ==
    /\ pc = "ensure"
    /\ Len(calls) < MaxEnsureCalls
    /\ \E parts \in { p \in EnsurePaths : calls = << >> \/ p = calls[1].args[1] } :
       \E outs \in MkdOutcomes(parts) :
         LET r == EnsureDirectory(dirs, files, cwd, parts, outs)
         IN  /\ dirs' = r.dirs
             /\ exc' = r.exc
             /\ Logged(<< Call("ensure_directory", <<parts, outs, r.dirs>>, r.exc) >>)
    /\ UNCHANGED <<copyTime, polls, exit_code, config, dry_run, version, filename, pc, result,
                   ftp, wire, cwd, files, warnings, localFile, exchangeFile, signedFile,
                   netAccessible, elapsed, pollCount, todo, init>>

NextEnsure == EnsureCall

SpecEnsure == InitEnsure /\ [][NextEnsure]_vars

-----------------------------------------------------------------------------
(* FTPClient on its own: a caller making up to MaxClientCalls calls of its  *)
(* public methods, in any order, on a client that starts without a session. *)
(* Each call is logged with the state the client was in when it was made    *)
(* and with what the server did with it.                                    *)

\* The calls a caller of the client makes.
MaxClientCalls == 3

\* The state of the client: no handle; a handle without a socket (FTP.connect
\* failed); a connection that connect gave up on (login or cwd failed); a session.
ClientState ==
    IF ftp = "None" THEN "unconnected"
    ELSE IF wire = "closed" THEN "no_socket"
    ELSE IF cwd = << >> THEN "half_open"
    ELSE "session"

\* What the server does with a command: anything inside a session; outside
\* one it carries nothing out.
ClientOutcomes == IF ClientState = "session" THEN Outcomes ELSE {"perm", "oserr"}

InitClient ==
    /\ config = [policy |-> "delete", naming |-> "timestamp", pre_sign |-> None,
                 release_notes |-> None]
    /\ dry_run = FALSE
    /\ version = None
    /\ filename = "app.exe"
    /\ localFile \in {"absent", "unsigned"}
    /\ netAccessible = TRUE
    /\ \E s \in { x \in InitialStores(filename) : BackupDir \notin x.dirs /\ RemotePath \in x.dirs } :
         /\ dirs = s.dirs
         /\ files = s.files
         /\ init = [dirs |-> s.dirs, files |-> s.files, localFile |-> localFile]
    /\ pc = "client"
    /\ result = "none"
    /\ exc = "none"
    /\ ftp = "None"
    /\ wire = "closed"
    /\ cwd = << >>
    /\ calls = << >>
    /\ warnings = {}
    /\ exchangeFile = "absent"
    /\ signedFile = None
    /\ elapsed = 0
    /\ pollCount = 0
    /\ todo = << >>
    /\ exit_code = None
    /\ polls = << >>
    /\ copyTime = 0

\* What no call of the client changes.
ClientFrame ==
    UNCHANGED <<copyTime, polls, exit_code, config, dry_run, version, filename, pc, result, warnings,
                localFile, exchangeFile, signedFile, netAccessible, elapsed, pollCount,
                todo, init>>

ClientMayCall == pc = "client" /\ Len(calls) < MaxClientCalls

ClientConnect ==
    /\ ClientMayCall
    /\ \E c \in ConnectChoices, outs \in MkdOutcomes(RemotePath) :
         LET r == Connect(c, outs)
         IN  /\ ftp' = r.ftp
             /\ wire' = r.wire
             /\ cwd' = r.cwd
             /\ dirs' = r.dirs
             /\ exc' = r.exc
             /\ Logged(<< Call("connect", <<ClientState, c>>, r.exc) >>)
    /\ UNCHANGED files
    /\ ClientFrame

ClientDisconnect ==
    /\ ClientMayCall
    /\ \E q \in QuitOutcomes :
         LET r == Disconnect(q)
         IN  /\ ftp' = r.ftp
             /\ wire' = r.wire
             /\ exc' = r.exc
             /\ Logged(<< Call("disconnect", <<ClientState, q>>, r.exc) >>)
    /\ UNCHANGED <<cwd, dirs, files>>
    /\ ClientFrame

ClientFileExists ==
    /\ ClientMayCall
    /\ \E o \in ClientOutcomes :
         LET r == FileExists(filename, o)
         IN  /\ exc' = r.exc
             /\ Logged(<< Call("file_exists", <<ClientState, o>>,
                              IF r.exc # "none" THEN r.exc
                              ELSE IF r.ret THEN "True" ELSE "False") >>)
    /\ UNCHANGED <<ftp, wire, cwd, dirs, files>>
    /\ ClientFrame

ClientDeleteFile ==
    /\ ClientMayCall
    /\ \E o \in ClientOutcomes :
         LET r == DeleteFile(filename, o)
         IN  /\ exc' = r.exc
             /\ files' = r.files
             /\ Logged(<< Call("delete_file", <<ClientState, o>>, r.exc) >>)
    /\ UNCHANGED <<ftp, wire, cwd, dirs>>
    /\ ClientFrame

ClientRenameFile ==
    /\ ClientMayCall
    /\ \E o \in ClientOutcomes :
         LET r == RenameFile(dirs, files, <<filename>>, <<SubfolderBase, filename>>, o)
         IN  /\ exc' = r.exc
             /\ files' = r.files
             /\ Logged(<< Call("rename_file", <<ClientState, o>>, r.exc) >>)
    /\ UNCHANGED <<ftp, wire, cwd, dirs>>
    /\ ClientFrame

ClientEnsureDirectory ==
    /\ ClientMayCall
    /\ \E o \in ClientOutcomes :
         LET r == EnsureDirectory(dirs, files, cwd, <<SubfolderBase>>, <<o>>)
         IN  /\ exc' = r.exc
             /\ dirs' = r.dirs
             /\ Logged(<< Call("ensure_directory", <<ClientState, o>>, r.exc) >>)
    /\ UNCHANGED <<ftp, wire, cwd, files>>
    /\ ClientFrame

ClientUploadFile ==
    /\ ClientMayCall
    /\ \E o \in ClientOutcomes :
         LET r == UploadFile(dirs, files, cwd, filename, localFile, o)
         IN  /\ exc' = r.exc
             /\ files' = r.files
             /\ Logged(<< Call("upload_file", <<ClientState, o>>, r.exc) >>)
    /\ UNCHANGED <<ftp, wire, cwd, dirs>>
    /\ ClientFrame

NextClient ==
    \/ ClientConnect
    \/ ClientDisconnect
    \/ ClientFileExists
    \/ ClientDeleteFile
    \/ ClientRenameFile
    \/ ClientEnsureDirectory
    \/ ClientUploadFile

SpecClient == InitClient /\ [][NextClient]_vars

-----------------------------------------------------------------------------
(* The claims.                                                             *)

\* The uploads of the artifact (the release notes' files have other names).
ArtifactUploads == { i \in CallsOf("upload_file") : calls[i].args = << <<filename>> >> }

\* The invocations of the backup handler, and its returns.
HandleCalled == { i \in CallsOf("handle") : calls[i].ret = "called" }

HandleReturned == { i \in CallsOf("handle") : calls[i].ret = "returned" }

\* The connects that went through.
Connected == { i \in CallsOf("connect") : calls[i].ret = "none" }

\* The version folder the gate looks for.
VersionPath == <<SubfolderBase, version[1]>>

\* C1: with the artifact present, a dry run makes no transport call, opens no
\* session, leaves the remote store, the artifact, the exchange location and the
\* signed location as they were, whatever the configuration, and returns true.
C1_DryRunNoEffect ==
    (dry_run /\ init.localFile # "absent") =>
        /\ \A i \in 1..Len(calls) :
             calls[i].op \notin TransportOps \cup {"handle", "input", "pre_signer.process"}
        /\ ftp = "None" /\ wire = "closed"
        /\ dirs = init.dirs /\ files = init.files
        /\ localFile = init.localFile /\ exchangeFile = "absent" /\ signedFile = None
        /\ exc = "none"
        /\ result # "false"
        /\ (pc = "done" => result = "true")

C1_Witness ==
    /\ dry_run /\ pc = "done" /\ result = "true"
    /\ config.pre_sign # None
    /\ config.release_notes # None /\ config.release_notes[1].kind = "dir"
    /\ config.policy = "rename" /\ version = Some("1.0.0")
    /\ Artifact(filename) \in DOMAIN files

\* C2: with no artifact at the path, live or dry run, release returns false
\* without raising; it makes no call at all: no connect, no prompt, no pre-signing.
C2_MissingArtifactFails ==
    init.localFile = "absent" =>
        /\ calls = << >>
        /\ exc = "none"
        /\ ftp = "None" /\ wire = "closed"
        /\ exchangeFile = "absent"
        /\ result # "true"
        /\ (pc = "done" => result = "false")
        /\ pc \in {"start", "done"}

C2_Witness ==
    /\ init.localFile = "absent" /\ pc = "done" /\ result = "false"
    /\ dry_run
    /\ config.pre_sign # None /\ config.policy = "rename" /\ version = Some("1.0.0")
    /\ VersionDir \in dirs

C4_SessionAlwaysClosed ==
    pc = "done" =>
        /\ \A i \in Connected :
             \E j \in CallsOf("disconnect") :
                /\ i < j
                /\ \A k \in CallsOf("connect") : ~(i < k /\ k < j)
        /\ (ftp # "None" \/ wire = "open") =>
               /\ calls # << >>
               /\ calls[Len(calls)].op = "connect"
               /\ calls[Len(calls)].ret # "none"

C4_Witness ==
    /\ pc = "done" /\ exc = "KeyboardInterrupt"
    /\ Cardinality(Connected) = 2
    /\ \E i \in ArtifactUploads : calls[i].ret = "none"
    /\ CallsOf("change_directory") # {}
    /\ ftp = "None" /\ wire = "closed"

\* The answers that say no: "n", and the empty answer (the default, N).
NegativeAnswers == {"n", ""}

\* C5: with the Rename policy, a version, and the version folder found on the
\* remote side, a negative answer makes release return false; in that run
\* pre-signing is never started, the backup handler never invoked, and
\* upload_file never called.
C5_DeclineAborts ==
    ( /\ config.policy = "rename"
      /\ version \notin {None, Some("")}
      /\ \E j \in CallsOf("directory_exists"), i \in CallsOf("input") :
           /\ j < i
           /\ calls[j].args = <<VersionPath>> /\ calls[j].ret = "True"
           /\ calls[i].ret \in NegativeAnswers )
    =>  /\ CallsOf("pre_signer.process") = {}
        /\ CallsOf("handle") = {}
        /\ CallsOf("upload_file") = {}
        /\ exchangeFile = "absent"
        /\ exc = "none"
        /\ result = "false"

C5_Witness ==
    /\ pc = "done" /\ result = "false"
    /\ config.policy = "rename" /\ version = Some("1.0.0")
    /\ config.pre_sign # None
    /\ Artifact(filename) \in DOMAIN files
    /\ \E i \in CallsOf("input") : calls[i].ret = "n"
    /\ CallsOf("disconnect") # {}

\* C6: with the Rename policy, a version, and the version folder found, the
\* answer "y" lets the release go on: it is never aborted with false, and when
\* no step fails it returns true after the normal sequence: the gate's
\* disconnect, pre-signing exactly when configured, connect, the existence
\* check, the backup handler exactly when the file exists, and the upload.
C6_ConfirmProceeds ==
    \A i \in CallsOf("input") :
       ( /\ calls[i].ret = "y"
         /\ config.policy = "rename"
         /\ version \notin {None, Some("")}
         /\ \E j \in CallsOf("directory_exists") :
              j < i /\ calls[j].args = <<VersionPath>> /\ calls[j].ret = "True" )
       =>  /\ result # "false"
           /\ pc # "gate_prompt"
           /\ (pc = "done" /\ exc = "none") =>
                 /\ result = "true"
                 /\ \E d \in CallsOf("disconnect"), c \in Connected,
                       e \in CallsOf("file_exists"), u \in ArtifactUploads :
                      /\ i < d /\ d < c /\ c < e /\ e < u
                      /\ calls[u].ret = "none"
                      /\ (config.pre_sign # None) <=>
                            (\E p \in CallsOf("pre_signer.process") : d < p /\ p < c)
                      /\ (calls[e].ret = "True") <=>
                            (\E k \in HandleCalled, r \in HandleReturned :
                                e < k /\ k < r /\ r < u)

C6_Witness ==
    /\ pc = "done" /\ result = "true"
    /\ \E i \in CallsOf("input") : calls[i].ret = "y"
    /\ config.pre_sign # None /\ localFile = "signed"
    /\ HandleReturned # {}
    /\ VersionDir \o <<filename>> \in DOMAIN files

\* C7: no prompt with the Delete policy, with no version, or when the version
\* folder is not on the remote side.  In the first two cases the gate makes no
\* call: the only session is the main one, opened after pre-signing.  In all
\* three the gate never makes release return false, and a release in which
\* nothing fails returns true.
C7_GateSkipped ==
    /\ ( \/ config.policy = "delete"
         \/ version \in {None, Some("")}
         \/ \E j \in CallsOf("directory_exists") : calls[j].ret = "False" )
       =>  /\ CallsOf("input") = {}
           /\ "version_folder_exists" \notin warnings
           /\ init.localFile # "absent" => result # "false"
           /\ (pc = "done" /\ exc = "none" /\ init.localFile # "absent") => result = "true"
    /\ (config.policy = "delete" \/ version \in {None, Some("")})
       =>  /\ CallsOf("directory_exists") = {}
           /\ Cardinality(CallsOf("connect")) <= 1
           /\ pc \in {"gate", "presign", "ps_wait", "ps_back"} => calls \in {<< >>,
                  << Call("pre_signer.process", << <<filename>> >>, "started") >>}

C7_Witness ==
    /\ pc = "done" /\ result = "true"
    /\ config.policy = "rename" /\ version = Some("1.0.0")
    /\ \E j \in CallsOf("directory_exists") :
         calls[j].args = <<VersionPath>> /\ calls[j].ret = "False"
    /\ Cardinality(Connected) = 2
    /\ HandleReturned # {}

\* C8 as stated: whenever the existence check said no, the handler is not
\* invoked, the artifact is uploaded exactly once, and release returns true.
C8_AsStated ==
    (pc = "done" /\ \E j \in CallsOf("file_exists") : calls[j].ret = "False")
    =>  /\ HandleCalled = {}
        /\ Cardinality(ArtifactUploads) = 1
        /\ result = "true"

\* C8, amended: when the existence check said no, the backup handler is never
\* invoked (no delete, no rename, no directory made before the upload) and the
\* artifact is uploaded at most once; a release in which no step fails or is
\* interrupted uploads it exactly once and returns true, and any other raises.
C8_NewFileUpload ==
    (\E j \in CallsOf("file_exists") : calls[j].ret = "False")
    =>  /\ CallsOf("handle") = {}
        /\ CallsOf("delete_file") = {} /\ CallsOf("rename_file") = {}
        /\ \A m \in CallsOf("ensure_directory") : \E u \in ArtifactUploads : u < m
        /\ Cardinality(ArtifactUploads) <= 1
        /\ result # "false"
        /\ (pc = "done" /\ exc = "none") =>
              /\ result = "true"
              /\ Cardinality(ArtifactUploads) = 1
              /\ \A u \in ArtifactUploads : calls[u].ret = "none"
        /\ (pc = "done" /\ exc # "none") => result = "none"

C8_Witness ==
    /\ pc = "done" /\ result = "true"
    /\ \E j \in CallsOf("file_exists") : calls[j].ret = "False"
    /\ Cardinality(ArtifactUploads) = 1
    /\ Artifact(filename) \notin DOMAIN init.files
    /\ files[Artifact(filename)] = "unsigned"

\* C9: the Delete handler, for every file name and every version, calls
\* delete_file exactly once, with the file name, and calls neither rename_file
\* nor ensure_directory; it makes no directory.
C9_DeleteHandler ==
    (config.policy = "delete" /\ pc # "handle") =>
        /\ Cardinality(CallsOf("delete_file")) = 1
        /\ \A i \in CallsOf("delete_file") : calls[i].args = << <<filename>> >>
        /\ CallsOf("rename_file") = {}
        /\ CallsOf("ensure_directory") = {}
        /\ dirs = init.dirs

C9_Witness ==
    /\ config.policy = "delete" /\ pc = "upload"
    /\ version = Some("1.0.0") /\ filename = "setup.msi"
    /\ HandleReturned # {}
    /\ Artifact(filename) \in DOMAIN init.files
    /\ Artifact(filename) \notin DOMAIN files

\* C10 as stated, a supplied version being any string: with Version naming and
\* a version string given, the subfolder made sure of ends in exactly that string.
C10_AsStated ==
    (config.policy = "rename" /\ config.naming = "version" /\ version # None
       /\ pc # "handle") =>
        \A i \in CallsOf("ensure_directory") :
           Len(calls[i].args[1]) = 2 => calls[i].args[1][2] = version[1]

\* The clock readings of Times as strftime("%Y%m%d_%H%M%S") prints them.
Stamps == {"20240115_103045", "20240620_140000"}

\* C10: the suffix of the Rename handler, read off the subfolder it makes sure
\* of: with Timestamp naming a clock reading printed YYYYMMDD_HHMMSS, whatever
\* the version; with Version naming and a version, that version; with Version
\* naming and no version (None or the empty string) a printed clock reading
\* again, with the warning logged and the handler going on to its remote calls.
C10_RenameSuffix ==
    (config.policy = "rename" /\ pc # "handle") =>
        /\ calls[2].op = "ensure_directory"
        /\ (config.naming = "version" /\ version \in {None, Some("")})
              => "no_version_fallback" \in warnings
        /\ CallsOf("rename_file") # {} => exc \in {"none", "FTPError", "OSError"}
        /\ \A i \in CallsOf("ensure_directory") :
             Len(calls[i].args[1]) = 2 =>
                LET suffix == calls[i].args[1][2]
                IN  /\ calls[i].args[1][1] = SubfolderBase
                    /\ config.naming = "timestamp" => suffix \in Stamps /\ Len(suffix) = 15
                    /\ (config.naming = "version" /\ version \notin {None, Some("")})
                          => suffix = version[1]
                    /\ (config.naming = "version" /\ version \in {None, Some("")})
                          => suffix \in Stamps /\ Len(suffix) = 15

C10_Witness ==
    /\ config.policy = "rename" /\ config.naming = "version" /\ version = Some("")
    /\ pc = "upload" /\ exc = "none"
    /\ "no_version_fallback" \in warnings
    /\ HandleReturned # {}
    /\ (BackupDir \o <<"20240620_140000", filename>>) \in DOMAIN files

\* The calls the handler made, without the entry and the return of handle.
HandlerOps == SelectSeq(calls, LAMBDA c : c.op # "handle")

\* The subfolder the Rename handler made sure of, read off its second call.
SubfolderUsed == HandlerOps[2].args[1]

\* C11 as stated: every run of the Rename handler makes the three calls
\* ensure_directory(base), ensure_directory(base/suffix), rename_file(name,
\* base/suffix/name), in this order and nothing else.
C11_AsStated ==
    (config.policy = "rename" /\ pc # "handle") =>
        /\ Len(HandlerOps) = 3
        /\ HandlerOps[1].op = "ensure_directory"
        /\ HandlerOps[2].op = "ensure_directory"
        /\ HandlerOps[3].op = "rename_file"

\* C11, amended: the Rename handler calls ensure_directory(base), then
\* ensure_directory(base/suffix), then rename_file(name, base/suffix/name), each
\* call made exactly when the one before it returned, so a run that returns has
\* made exactly these three calls with exactly one rename; it never calls
\* delete_file; ensure_directory never raises a refusal, so a directory that is
\* already there is no error; after the handler returns the file is gone from
\* its place and its content is at base/suffix/name.
C11_RenameSequence ==
    (config.policy = "rename" /\ pc # "handle") =>
        /\ Len(HandlerOps) \in 1..3
        /\ HandlerOps[1] \in { Call("ensure_directory", << <<SubfolderBase>> >>, e) :
                                  e \in {"none", "OSError"} }
        /\ Len(HandlerOps) >= 2 <=> HandlerOps[1].ret = "none"
        /\ Len(HandlerOps) >= 2 =>
              /\ HandlerOps[2].op = "ensure_directory"
              /\ HandlerOps[2].ret \in {"none", "OSError"}
              /\ Len(SubfolderUsed) = 2 /\ SubfolderUsed[1] = SubfolderBase
        /\ Len(HandlerOps) = 3 <=> (Len(HandlerOps) >= 2 /\ HandlerOps[2].ret = "none")
        /\ Len(HandlerOps) = 3 =>
              /\ HandlerOps[3].op = "rename_file"
              /\ HandlerOps[3].args = << <<filename>>, SubfolderUsed \o <<filename>> >>
        /\ CallsOf("delete_file") = {}
        /\ Cardinality(CallsOf("rename_file")) <= 1
        /\ HandleReturned # {} <=> (Len(HandlerOps) = 3 /\ HandlerOps[3].ret = "none")
        /\ HandleReturned # {} <=> exc = "none"
        /\ HandleReturned # {} =>
              /\ Artifact(filename) \notin DOMAIN files
              /\ (RemotePath \o SubfolderUsed \o <<filename>>) \in DOMAIN files
              /\ files[RemotePath \o SubfolderUsed \o <<filename>>] = init.files[Artifact(filename)]
              /\ (RemotePath \o SubfolderUsed) \in dirs
        /\ HandleReturned = {} => files = init.files

C11_Witness ==
    /\ config.policy = "rename" /\ config.naming = "version" /\ version = Some("1.0.0")
    /\ pc = "upload" /\ HandleReturned # {}
    /\ VersionDir \in init.dirs
    /\ init.files[VersionDir \o <<filename>>] = "older"
    /\ files[VersionDir \o <<filename>>] = "old"
    /\ Artifact(filename) \notin DOMAIN files
    /\ dirs = init.dirs

\* The prompts the operator answered with something that aborts.
Declines == { i \in CallsOf("input") : Declined(calls[i].ret) }

\* The errors of exceptions.py a failed release is to raise.
TypedErrors == {"FTPError", "PreSignError"}

\* C12 as stated: a live release returns true only after an upload of the
\* artifact that returned, returns false only for a missing artifact or a
\* declined prompt, and in every other case that is not an operator interrupt
\* raises a typed error (a transport error or a pre-sign error), returning
\* nothing.
C12_AsStated ==
    (~dry_run /\ pc = "done") =>
        /\ result = "true" => \E u \in ArtifactUploads : calls[u].ret = "none"
        /\ result = "false" => (init.localFile = "absent" \/ Declines # {})
        /\ result = "none" => exc \in TypedErrors \cup {"KeyboardInterrupt"}
        /\ result # "none" => exc = "none"

\* C13 as stated: run returns exactly one exit code for every outcome: 0 for
\* true, 1 for false, 2 for a configuration error, 3 for a failure of the
\* transport, 1 for a pre-sign error, 130 for an interrupt.
C13_AsStated ==
    pc \in {"exited", "run_raised"} =>
        /\ exit_code # None
        /\ result = "true" => exit_code = Some(0)
        /\ result = "false" => exit_code = Some(1)
        /\ exc = "ConfigurationError" => exit_code = Some(2)
        /\ exc \in {"FTPError", "OSError"} => exit_code = Some(3)
        /\ exc = "PreSignError" => exit_code = Some(1)
        /\ exc = "KeyboardInterrupt" => exit_code = Some(130)

\* The entries, the raises and the returns of pre_signer.process.
ProcessStarts == CallsOf("pre_signer.process")

ProcessRaises == CallsOf("pre_signer.process.raise")

ProcessReturns == CallsOf("pre_signer.process.return")

\* What a poll finds when the file is there and signed by the expected signer.
Expected == Some(Some(ExpectedSigner))

\* The last poll made.
LastPoll == polls[Len(polls)]

\* The file-system calls of _move_back.
MoveBackOps == {"copy2", "unlink"}

\* C14: when a pre-sign step fails (exchange location not accessible, copy to
\* it failing, timeout of the wait, file-system failure of the hand-back),
\* release raises a PreSignError and ends there: after process was entered no
\* session is opened, and file_exists, the backup handler and upload_file are
\* never called in that run.
C14_PreSignFailureAborts ==
    /\ \A r \in ProcessRaises :
         /\ calls[r].ret \in {MsgNotAccessible, MsgCopyFailed, MsgTimeout, MsgMoveBackFailed}
         /\ r = Len(calls)
         /\ pc = "done" /\ exc = "PreSignError" /\ result = "none"
         /\ ftp = "None" /\ wire = "closed"
         /\ \A p \in ProcessStarts : \A i \in p..Len(calls) : calls[i].op \notin TransportOps
         /\ CallsOf("file_exists") = {} /\ CallsOf("handle") = {}
         /\ CallsOf("upload_file") = {}
    /\ exc = "PreSignError" => (pc = "done" /\ ProcessRaises # {})
    /\ (~netAccessible /\ ProcessStarts # {}) =>
          \E r \in ProcessRaises : calls[r].ret = MsgNotAccessible
    /\ \A i \in 1..Len(calls) :
         (calls[i].op \in MoveBackOps /\ calls[i].ret = "OSError") =>
            \E r \in ProcessRaises : calls[r].ret = MsgMoveBackFailed

C14_Witness ==
    /\ pc = "done" /\ exc = "PreSignError"
    /\ \E r \in ProcessRaises : calls[r].ret = MsgMoveBackFailed
    /\ \E i \in CallsOf("unlink") : calls[i].args = <<"signed">> /\ calls[i].ret = "OSError"
    /\ localFile = "signed"
    /\ Connected # {} /\ CallsOf("input") # {}

\* C15: a poll is started only before the timeout, and the first poll that
\* finds the file signed by the expected signer ends the wait with success:
\* when poll k is that poll, exactly k polls have been made, no poll follows
\* it, and the wait does not fail with the timeout error (it goes on to the
\* hand-back, unless the operator interrupts there).
C15_FirstMatchEndsWait ==
    /\ pollCount = Len(polls) \/ (pollCount = 0 /\ pc = "done")
    /\ \A k \in 1..Len(polls) :
         /\ config.pre_sign # None /\ polls[k].at < config.pre_sign[1].timeout
         /\ k > 1 => polls[k].at > polls[k - 1].at
         /\ polls[k].found = Expected =>
               /\ k = Len(polls) /\ pollCount = k
               /\ \/ pc = "ps_back" /\ exc = "none"
                  \/ pc = "done" /\ exc = "KeyboardInterrupt"
               /\ \A r \in ProcessRaises : calls[r].ret # MsgTimeout
    /\ pc = "ps_back" => (polls # << >> /\ LastPoll.found = Expected)
    /\ CallsOf("copy2") # {} => \A r \in ProcessRaises : calls[r].ret # MsgTimeout
    /\ pc \notin {"ps_wait", "ps_back", "done"} => polls = << >>

C15_Witness ==
    /\ pc = "ps_back" /\ pollCount = 2
    /\ polls[1].found = Some(Some("xida gmbh"))
    /\ polls[2].found = Expected
    /\ polls[2].at < config.pre_sign[1].timeout

\* What holds once process has failed with the timeout error.
TimeoutState ==
    \A r \in ProcessRaises :
       calls[r].ret = MsgTimeout =>
          /\ \A k \in 1..Len(polls) : polls[k].found # Expected
          /\ elapsed >= config.pre_sign[1].timeout
          /\ exc = "PreSignError" /\ pc = "done"
          /\ CallsOf("copy2") = {} /\ CallsOf("unlink") = {}
          /\ ProcessReturns = {}
          /\ localFile = init.localFile /\ localFile = "unsigned"
          /\ exchangeFile = "unsigned"
          /\ signedFile = IF polls = << >> THEN None ELSE LastPoll.found

\* A step that leaves the wait, the operator's interrupt apart: after a poll
\* that found the expected signer it goes to the hand-back, and otherwise it
\* is the timeout error.
LeavesWait ==
    (pc = "ps_wait" /\ pc' # "ps_wait" /\ exc' # "KeyboardInterrupt") =>
        IF polls' # << >> /\ polls'[Len(polls')].found = Expected
        THEN pc' = "ps_back"
        ELSE /\ calls' = Append(calls, ProcessRaise(MsgTimeout))
             /\ exc' = "PreSignError"
             /\ polls' = polls

\* C16: when no poll started before the timeout finds the file signed by the
\* expected signer, the only way process ends is the pre-sign timeout error,
\* and then no hand-back has been made: the local artifact still holds its
\* unsigned content, nothing was deleted from the signed location, and the
\* copy in the exchange location is still there.
C16_TimeoutNoHandBack == []TimeoutState /\ [][LeavesWait]_vars

C16_Witness ==
    /\ pc = "done" /\ exc = "PreSignError"
    /\ \E r \in ProcessRaises : calls[r].ret = MsgTimeout
    /\ Len(polls) = 2
    /\ signedFile = Some(Some("Other Corp"))
    /\ localFile = "unsigned"

\* C17: when process returns, it returns the path it was given, the local
\* artifact holds the signed content, and the signed copy and the exchange copy
\* are gone; _move_back overwrites the original first, then deletes the signed
\* copy, then deletes the exchange copy (when it is still there); a
\* file-system failure in any of these steps makes process raise a
\* PreSignError and not return.
C17_MoveBack ==
    /\ \A r \in ProcessReturns :
         /\ calls[r].args = << <<filename>> >> /\ calls[r].ret = filename
         /\ localFile = "signed" /\ signedFile = None /\ exchangeFile = "absent"
         /\ ProcessRaises = {}
         /\ \A i \in 1..Len(calls) : calls[i].op \in MoveBackOps => calls[i].ret = "none"
         /\ \E i \in CallsOf("copy2"), j \in CallsOf("unlink") :
              i < j /\ j < r /\ calls[j].args = <<"signed">>
         /\ \A u \in ArtifactUploads : calls[u].ret = "none" => files[Artifact(filename)] = "signed"
    /\ Cardinality(CallsOf("copy2")) <= 1 /\ Cardinality(CallsOf("unlink")) <= 2
    /\ \A j \in CallsOf("unlink") :
         /\ j > 1
         /\ calls[j].args = <<"signed">> =>
               calls[j - 1] = Call("copy2", <<"signed", "original">>, "none")
         /\ calls[j].args = <<"exchange">> =>
               calls[j - 1] = Call("unlink", <<"signed">>, "none")
    /\ \A i \in 1..Len(calls) :
         (calls[i].op \in MoveBackOps /\ calls[i].ret = "OSError") =>
            /\ i + 1 = Len(calls)
            /\ calls[i + 1] = ProcessRaise(MsgMoveBackFailed)
            /\ exc = "PreSignError" /\ ProcessReturns = {}
    /\ (CallsOf("copy2") # {} /\ ProcessRaises = {}) => ProcessReturns # {}

C17_Witness ==
    /\ pc = "done" /\ result = "true"
    /\ ProcessReturns # {}
    /\ \E j \in CallsOf("unlink") : calls[j].args = <<"exchange">>
    /\ init.localFile = "unsigned" /\ localFile = "signed"
    /\ files[Artifact(filename)] = "signed"

\* The elements of a sequence.
Range(q) == { q[i] : i \in 1..Len(q) }

\* Where the sync in progress starts in the log, and its calls of one operation.
SyncStart == IF CallsOf("sync_again") = {} THEN 0
             ELSE CHOOSE i \in CallsOf("sync_again") : TRUE

InSync(op) == { i \in CallsOf(op) : i > SyncStart }

\* The release-notes settings, the local version folders L, and the remote
\* directory of a version folder as _execute_upload names it.
NotesCfg == config.release_notes[1]

LocalSet == DOMAIN NotesCfg.folders

FolderTarget(F) == NotesCfg.remote.parts \o <<F>>

\* The listings of the sync that succeeded, and the folder names R one returned.
Listed == { l \in InSync("list_directories") : calls[l].ret = "none" }

RemoteSet(l) == Range(calls[l].args[1])

\* The mkdirs of version folders (the first ensure_directory is for remote_path
\* itself), the folder each is for, and the folder an upload goes to.
FolderMkdirs == { i \in InSync("ensure_directory") :
                    Len(calls[i].args[1]) = Len(NotesCfg.remote.parts) + 1 }

FolderOf(i) == calls[i].args[1][Len(calls[i].args[1])]

MkdirBefore(u) == CHOOSE i \in FolderMkdirs :
                     i < u /\ \A j \in FolderMkdirs : j < u => j <= i

\* The returns of upload() in the sync.
SyncReturns == InSync("release_notes.upload")

\* C18 as stated: at the end of a sync whose listing succeeded, the version
\* folders made remotely are exactly L minus R.
C18_AsStated ==
    (pc = "main_fin") =>
        \A l \in Listed : { FolderOf(i) : i \in FolderMkdirs } = LocalSet \ RemoteSet(l)

\* C18, amended: in a live sync whose listing succeeded with R, every version
\* folder made remotely is in L minus R and is made once, every upload goes
\* to the folder made last and sends a regular file lying directly in the
\* local folder of that name, and nothing is made or uploaded for a folder in
\* both L and R; a sync that returns has made exactly the folders of L minus R
\* and has sent exactly the regular files of each.
C18_NewFoldersOnly ==
    \A l \in Listed :
       LET R   == RemoteSet(l)
           New == LocalSet \ R
       IN  /\ \A i \in FolderMkdirs :
                /\ i > l
                /\ FolderOf(i) \in New
                /\ calls[i].args[1] = FolderTarget(FolderOf(i))
                /\ \A j \in FolderMkdirs : FolderOf(i) = FolderOf(j) => i = j
           /\ \A u \in InSync("upload_file") :
                /\ \E i \in FolderMkdirs : i < u
                /\ calls[u].args[1][1] \in RegularFiles(NotesCfg, FolderOf(MkdirBefore(u)))
                /\ calls[MkdirBefore(u)].ret = "none"
           /\ \A r \in SyncReturns :
                /\ calls[r].ret = "True" /\ r > l
                /\ { FolderOf(i) : i \in FolderMkdirs } = New
                /\ \A F \in New :
                     { calls[u].args[1][1] :
                         u \in { v \in InSync("upload_file") :
                                   FolderOf(MkdirBefore(v)) = F /\ calls[v].ret = "none" } }
                     = RegularFiles(NotesCfg, F)
           /\ SyncStart = 0 =>
                /\ \A d \in dirs \ init.dirs :
                     d[Len(d)] \in New \cup Range(NotesCfg.remote.parts)
                /\ \A f \in DOMAIN files \ DOMAIN init.files :
                     /\ Parent(f) \in dirs
                     /\ Parent(f)[Len(Parent(f))] \in New
                     /\ f[Len(f)] \in RegularFiles(NotesCfg, Parent(f)[Len(Parent(f))])

C18_Witness ==
    /\ pc = "main_fin" /\ exc = "none" /\ SyncStart = 0
    /\ \E l \in Listed : RemoteSet(l) = {"v1"}
    /\ LocalSet = {"v1", "v2"}
    /\ \E r \in SyncReturns : calls[r].ret = "True"
    /\ { FolderOf(i) : i \in FolderMkdirs } = {"v2"}
    /\ \E f \in DOMAIN files : f[Len(f)] = "b.md" /\ f[Len(f) - 1] = "v2"
    /\ \A f \in DOMAIN files : f[Len(f)] # "a.md"

\* C19 as stated: when the local notes path is missing or is no directory, the
\* sync makes no remote call and returns true.
C19_AsStated ==
    (NotesCfg.kind \in {"missing", "file"} /\ pc # "notes") =>
        /\ \A i \in 1..Len(calls) : calls[i].op \notin TransportOps
        /\ SyncReturns # {}
        /\ \A r \in SyncReturns : calls[r].ret = "True"

\* C20 as stated, for a second run in which no remote call fails: after a sync
\* that returned true, a second sync from the same local folder makes no
\* version folder, uploads no file, and returns true.
C20_AsStated ==
    ( /\ SyncStart > 0
      /\ \E r \in CallsOf("release_notes.upload") : r < SyncStart /\ calls[r].ret = "True"
      /\ \A i \in (SyncStart + 1)..Len(calls) : calls[i].ret \in {"none", "True"} )
    =>  /\ FolderMkdirs = {}
        /\ InSync("upload_file") = {}
        /\ pc = "main_fin" => \E r \in SyncReturns : calls[r].ret = "True"


\* Where {release_notes.remote_path} is on the server: the path as configured,
\* from the directory the session starts in.
NotesHome == Resolve(RemotePath, NotesCfg.remote)

\* C21 as stated: after a sync that returned true, every regular file directly
\* inside each local folder it uploaded is stored at
\* {release_notes.remote_path}/{folder}/{file}.
C21_AsStated ==
    (pc = "main_fin" /\ exc = "none" /\ \E r \in SyncReturns : calls[r].ret = "True") =>
        \A i \in FolderMkdirs : \A f \in RegularFiles(NotesCfg, FolderOf(i)) :
            /\ (NotesHome \o <<FolderOf(i), f>>) \in DOMAIN files
            /\ files[NotesHome \o <<FolderOf(i), f>>] = "notes"


\* The artifact's upload that went through, the calls the release-notes sync
\* made after it on behalf of a version folder (from the folder's
\* ensure_directory on), and those of them that failed.
ArtifactStored == { i \in ArtifactUploads : calls[i].ret = "none" }

FolderCalls ==
    { i \in 1..Len(calls) :
        /\ config.release_notes # None
        /\ calls[i].op \in {"ensure_directory", "change_directory", "upload_file"}
        /\ \E u \in ArtifactStored, m \in CallsOf("ensure_directory") :
              /\ u < m /\ m <= i
              /\ Len(calls[m].args[1]) = Len(NotesCfg.remote.parts) + 1 }

FolderFailures == { i \in FolderCalls : calls[i].ret # "none" }

\* C22 as stated: a remote operation failing while the sync works on a version
\* folder is the last remote operation but the disconnect, leaves release as a
\* transport error with no return of true, and the session is closed.
C22_AsStated ==
    \A i \in FolderFailures :
        /\ \A j \in (i + 1)..Len(calls) : calls[j].op = "disconnect"
        /\ exc = "FTPError"
        /\ result # "true"
        /\ pc \in {"main_fin", "done"}
        /\ pc = "done" => /\ ftp = "None" /\ wire = "closed"
                          /\ calls[Len(calls)].op = "disconnect"


\* The five operations of the client that act on the remote store.
StoreOps == {"file_exists", "delete_file", "rename_file", "ensure_directory", "upload_file"}

\* The calls of them made while the client had no connection to the server:
\* before any connect, after a disconnect, after a connect that reached no server.
Sessionless == { i \in 1..Len(calls) :
                   /\ calls[i].op \in StoreOps
                   /\ calls[i].args[1] \in {"unconnected", "no_socket"} }

\* C23 as stated: every store operation called while no session is connected
\* fails with the transport error, and as long as no call was made inside a
\* session the remote store is as it was.
C23_AsStated ==
    /\ \A i \in Sessionless : calls[i].ret = "FTPError"
    /\ (\A i \in 1..Len(calls) : calls[i].args[1] # "session" /\ calls[i].op # "connect")
           => dirs = init.dirs /\ files = init.files

\* C24 as stated: no call of disconnect raises, and after each the client holds
\* no handle.
C24_AsStated ==
    /\ \A i \in CallsOf("disconnect") : calls[i].ret = "none"
    /\ (calls # << >> /\ calls[Len(calls)].op = "disconnect") => ftp = "None"


\* The step of release a logged call belongs to: 1 the version-collision
\* check, 2 pre-sign, 3 connect, 4 the existence check, 5 the backup handler,
\* 6 the upload of the artifact, 7 the release-notes sync, 8 the disconnect
\* that ends the release.
StepOf(i) ==
    LET op == calls[i].op
    IN  CASE op \in {"directory_exists", "input"} -> 1
          [] op = "connect" ->
                IF \E j \in CallsOf("directory_exists") : i < j THEN 1 ELSE 3
          [] op = "disconnect" -> IF i = Len(calls) THEN 8 ELSE 1
          [] op \in {"pre_signer.process", "pre_signer.process.raise",
                     "pre_signer.process.return", "copy2", "unlink"} -> 2
          [] op = "file_exists" -> 4
          [] op \in {"handle", "delete_file", "rename_file"} -> 5
          [] op = "ensure_directory" ->
                IF \E a \in HandleCalled, b \in HandleReturned : a < i /\ i < b THEN 5 ELSE 7
          [] op = "upload_file" -> IF i \in ArtifactUploads THEN 6 ELSE 7
          [] OTHER -> 7

StepsAt(n) == { i \in 1..Len(calls) : StepOf(i) = n }

\* C25: in every live release that returns true the steps are logged in the
\* order version-collision check, pre-sign, connect, existence check of the
\* artifact's name, backup handler, upload of the artifact, release-notes
\* sync, disconnect; each optional step is there exactly when it applies (the
\* handler when the file exists, pre-sign and the sync when configured), there
\* is one connect, one existence check and one upload of the artifact, and the
\* artifact is at {remote_path}/{file_name} with the content of the local file.
\* Up to the upload the working directory is the transport's remote path.
C25_StepOrder ==
    /\ pc \in {"exists", "handle", "upload"} => cwd = RemotePath
    /\ pc = "notes" =>
          /\ cwd = RemotePath
          /\ StepsAt(7) = {}
          /\ Artifact(filename) \in DOMAIN files /\ files[Artifact(filename)] = localFile
    /\ (result = "true" /\ ~dry_run) =>
          /\ \A i, j \in 1..Len(calls) : i < j => StepOf(i) <= StepOf(j)
          /\ Cardinality(StepsAt(3)) = 1 /\ \A i \in StepsAt(3) : calls[i].ret = "none"
          /\ Cardinality(StepsAt(4)) = 1
          /\ \A i \in StepsAt(4) : /\ calls[i].args = << <<filename>> >>
                                   /\ (calls[i].ret = "True") <=> (StepsAt(5) # {})
          /\ StepsAt(5) # {} => HandleCalled # {} /\ HandleReturned # {}
          /\ Cardinality(StepsAt(6)) = 1 /\ StepsAt(6) = ArtifactStored
          /\ StepsAt(1) # {} <=> ~GateSkipped(config.policy, version)
          /\ (config.pre_sign # None) <=> (StepsAt(2) # {})
          /\ (config.pre_sign # None) => ProcessReturns # {}
          /\ (config.release_notes # None) <=> (StepsAt(7) # {})
          /\ StepsAt(8) = {Len(calls)}
          /\ Artifact(filename) \in DOMAIN files /\ files[Artifact(filename)] = localFile

C25_Witness ==
    /\ result = "true" /\ ~dry_run /\ pc = "done"
    /\ StepsAt(1) # {} /\ CallsOf("input") # {}
    /\ StepsAt(2) # {}
    /\ StepsAt(5) # {} /\ config.policy = "rename"
    /\ \E i \in StepsAt(7) : calls[i].op = "upload_file"


\* The calls the backup handler makes on the client, and those that failed.
HandlerCalls ==
    { i \in 1..Len(calls) :
        /\ calls[i].op \in {"delete_file", "rename_file", "ensure_directory"}
        /\ \E a \in HandleCalled : a < i
        /\ \A u \in ArtifactUploads : i < u }

HandlerFailures == { i \in HandlerCalls : calls[i].ret # "none" }

\* C26 as stated: when a remote operation of the backup handler fails, the
\* handler raises the transport error, upload_file is not called, release does
\* not return true, and the session is closed.
C26_AsStated ==
    \A i \in HandlerFailures :
        /\ exc = "FTPError"
        /\ HandleReturned = {}
        /\ CallsOf("upload_file") = {}
        /\ result # "true"
        /\ pc \in {"main_fin", "done"}
        /\ pc = "done" => /\ ftp = "None" /\ wire = "closed"
                          /\ calls[Len(calls)].op = "disconnect"


\* The store operations called inside a session that the server rejected: with
\* a 5xx reply, or with a 4xx reply or a dropped connection.
Rejected == { i \in 1..Len(calls) :
                /\ calls[i].op \in StoreOps
                /\ calls[i].args[1] = "session"
                /\ calls[i].args[2] \in {"perm", "oserr"} }

\* C27 as stated: every store operation called inside a session and rejected
\* by the server fails with the transport error.
C27_AsStated == \A i \in Rejected : calls[i].ret = "FTPError"


\* The wait's settings, and the most polls a wait of T seconds polled every p
\* seconds can make: ceil(T / p).
WaitCfg == config.pre_sign[1]

MaxPolls == (WaitCfg.timeout + WaitCfg.poll_interval - 1) \div WaitCfg.poll_interval

\* The polls a wait makes: each is started before the timeout and at least one
\* poll interval after the one before, the first at the start of the wait
\* whatever the copy took, so at most ceil(T / p) are made, and none when T = 0;
\* the timeout error is raised with T or more elapsed, and with T > 0 only
\* after at least one poll.
PollsBounded ==
    /\ Len(polls) <= MaxPolls
    /\ pollCount <= MaxPolls
    /\ WaitCfg.timeout = 0 => polls = << >>
    /\ polls # << >> => polls[1].at = 0
    /\ \A k \in 1..Len(polls) :
         /\ polls[k].at < WaitCfg.timeout
         /\ k > 1 => polls[k].at >= polls[k - 1].at + WaitCfg.poll_interval
    /\ (pc = "ps_wait" /\ polls = << >>) => elapsed = 0
    /\ \A r \in ProcessRaises :
         calls[r].ret = MsgTimeout =>
            /\ elapsed >= WaitCfg.timeout
            /\ WaitCfg.timeout > 0 => polls # << >>

\* C28: the pre-sign wait always ends; a poll is started only while the time
\* since the start of the wait is below the timeout T, so with poll interval
\* p at most ceil(T / p) polls are made before the timeout error, and none with
\* T = 0; the time the copy to the exchange location took is not counted.
C28_WaitTerminates ==
    /\ []PollsBounded
    /\ (pc = "ps_wait") ~> (pc # "ps_wait")

C28_Witness ==
    /\ pc = "done" /\ exc = "PreSignError"
    /\ \E r \in ProcessRaises : calls[r].ret = MsgTimeout
    /\ WaitCfg.timeout = MaxTimeout /\ WaitCfg.poll_interval = 1
    /\ Len(polls) = MaxPolls
    /\ copyTime >= WaitCfg.timeout


\* A poll that does not find the file signed by the expected signer (no
\* file, no signer to read, an empty or another signer) changes nothing but
\* the clock: the wait goes on, at least one poll interval later, with no
\* error and no success.
PollGoesOn ==
    (pc = "ps_wait" /\ polls' # polls /\ polls'[Len(polls')].found # Expected) =>
        /\ polls'[Len(polls')].found \in SignedStates \ {Expected}
        /\ pc' = "ps_wait" /\ exc' = "none"
        /\ elapsed' >= elapsed + WaitCfg.poll_interval
        /\ calls' = calls
        /\ localFile' = localFile /\ exchangeFile' = exchangeFile

\* The wait fails only at its timeout test.
WaitFailsByTimeout ==
    (pc = "ps_wait" /\ exc' = "PreSignError") =>
        /\ TimedOut(elapsed, WaitCfg.timeout)
        /\ polls' = polls
        /\ calls' = Append(calls, ProcessRaise(MsgTimeout))

\* C29: a poll that finds the signed file absent, or present with no signer
\* that can be read, or present with a signer other than the expected one,
\* neither fails nor succeeds: the wait sleeps at least one poll interval and
\* goes round the loop again; the only error the wait raises is the timeout.
C29_PollingContinues ==
    /\ [](pc = "ps_wait" => (exc = "none" /\ \A k \in 1..Len(polls) : polls[k].found # Expected))
    /\ [][PollGoesOn /\ WaitFailsByTimeout]_vars

C29_Witness ==
    /\ pc = "ps_wait" /\ exc = "none"
    /\ Len(polls) = 2
    /\ polls[1].found = None
    /\ polls[2].found = Some(None)
    /\ elapsed >= 2 * WaitCfg.poll_interval

\* The signers read that end the wait: the expected identity, letter for letter.
ExactOnly ==
    \A sg \in Signers : SignatureVerified(sg) <=> sg = Some(ExpectedSigner)

\* A step that overwrites the local artifact, or in which process returns.
HandsBack ==
    \/ localFile' # localFile
    \/ (Len(calls') > Len(calls) /\ calls'[Len(calls')].op = "pre_signer.process.return")

\* C30: process overwrites the local artifact and returns only after the poll
\* that ended the wait found the file in the signed location with a signer
\* equal to the expected identity, case included; no signer, an empty signer
\* or one differing only in case never ends the wait with success.
C30_ExactSignerOnly ==
    /\ [](/\ ExactOnly
          /\ pc = "ps_back" => (polls # << >> /\ LastPoll.found = Expected /\ signedFile = Expected)
          /\ (localFile = "signed" \/ ProcessReturns # {}) => CallsOf("copy2") # {})
    /\ [][HandsBack => (pc = "ps_back" /\ signedFile = Expected /\ LastPoll.found = Expected)]_vars

C30_Witness ==
    /\ pc = "connect" /\ exc = "none"
    /\ localFile = "signed" /\ init.localFile = "unsigned"
    /\ ProcessReturns # {}
    /\ \E i \in CallsOf("copy2") : calls[i].ret = "none"


\* C31: when the exchange location is not accessible, process raises the
\* pre-sign error before any polling: nothing is copied to the exchange
\* location, the signed location is never looked at, no hand-back is made, and
\* the local artifact is as it was.
C31_InaccessibleFailsFast ==
    (~netAccessible /\ pc # "presign") =>
        /\ pc = "done" /\ exc = "PreSignError"
        /\ calls = << Call("pre_signer.process", << <<filename>> >>, "started"),
                      ProcessRaise(MsgNotAccessible) >>
        /\ exchangeFile = "absent"
        /\ polls = << >> /\ pollCount = 0 /\ signedFile = None
        /\ localFile = init.localFile /\ localFile = "unsigned"

C31_Witness ==
    /\ ~netAccessible /\ pc = "done" /\ exc = "PreSignError"
    /\ ProcessRaises # {} /\ calls[Len(calls)].ret = MsgNotAccessible
    /\ WaitCfg.timeout > 0
    /\ exchangeFile = "absent" /\ localFile = "unsigned"


\* The calls of _get_remote_folders in the sync that raised: the change into
\* remote_path, or the listing.
ListingFailures ==
    { i \in InSync("list_directories") : calls[i].ret # "none" }
    \cup { i \in InSync("change_directory") :
             calls[i].args[1] = NotesCfg.remote.parts /\ calls[i].ret # "none" }

\* C32 as stated: at the end of a sync whose change of directory or listing
\* failed, every local version folder has been created and the sync returned.
C32_AsStated ==
    (pc = "main_fin" /\ ListingFailures # {}) =>
        /\ { FolderOf(i) : i \in FolderMkdirs } = LocalSet
        /\ \E r \in SyncReturns : calls[r].ret = "True"

\* C32, amended: a failure of the change into the remote notes path or of the
\* listing does not end the sync and raises nothing: the sync goes on with
\* every local version folder taken as new, in sorted order; a folder is
\* created and its files are uploaded unless a later remote operation raises,
\* and a sync that returns has created every local folder and uploaded every
\* regular file of each.
C32_ListingFailureAllNew ==
    \A l \in ListingFailures :
        /\ l = Len(calls) => (pc = "rn_folder" /\ exc = "none" /\ todo = LocalFolders(NotesCfg))
        /\ exc # "none" => \E i \in (l + 1)..Len(calls) : calls[i].ret = exc
        /\ \A i \in FolderMkdirs : i > l /\ FolderOf(i) \in LocalSet
        /\ (pc = "main_fin" /\ exc = "none") =>
              /\ \E r \in SyncReturns : calls[r].ret = "True" /\ r = Len(calls)
              /\ { FolderOf(i) : i \in FolderMkdirs } = LocalSet
              /\ \A F \in LocalSet :
                   { calls[u].args[1][1] :
                       u \in { v \in InSync("upload_file") :
                                 FolderOf(MkdirBefore(v)) = F /\ calls[v].ret = "none" } }
                   = RegularFiles(NotesCfg, F)

C32_Witness ==
    /\ pc = "main_fin" /\ exc = "none" /\ SyncStart = 0
    /\ \E l \in ListingFailures : calls[l].op = "list_directories"
    /\ (NotesDir \o <<"v1">>) \in init.dirs
    /\ { FolderOf(i) : i \in FolderMkdirs } = {"v1", "v2"}
    /\ \E r \in SyncReturns : calls[r].ret = "True"


\* The place of a folder name in the sorted order.
OrderIndex(F) == CHOOSE n \in 1..Len(FolderOrder) : FolderOrder[n] = F

\* The names of the entries of the local folders that are no regular files.
Nested == { e.name : e \in { x \in UNION { NotesCfg.folders[F] : F \in LocalSet } : ~x.file } }

\* C33: the sync takes the new folders in ascending order of name; for each
\* it creates the remote directory and changes into it before it uploads any
\* of the folder's files, every upload between the creation of one folder and
\* that of the next is of a regular file directly inside that folder, so one
\* folder's uploads are over before the next is started; an entry of a local
\* folder that is no regular file is neither uploaded nor created remotely.
C33_FolderOrder ==
    /\ \A i, j \in FolderMkdirs : i < j => OrderIndex(FolderOf(i)) < OrderIndex(FolderOf(j))
    /\ \A u \in InSync("upload_file") :
          /\ \E i \in FolderMkdirs : i < u
          /\ calls[MkdirBefore(u)].ret = "none"
          /\ calls[MkdirBefore(u) + 1].op = "change_directory"
          /\ calls[MkdirBefore(u) + 1].ret = "none"
          /\ calls[MkdirBefore(u) + 1].args = calls[MkdirBefore(u)].args
          /\ MkdirBefore(u) + 1 < u
          /\ calls[u].args[1][1] \in RegularFiles(NotesCfg, FolderOf(MkdirBefore(u)))
          /\ calls[u].args[1][1] \notin Nested
    /\ \A i \in FolderMkdirs, u \in InSync("upload_file") :
          (calls[u].args[1][1] \in RegularFiles(NotesCfg, FolderOf(i))) => i < u
    /\ \A i \in InSync("ensure_directory") : calls[i].args[1][Len(calls[i].args[1])] \notin Nested
    /\ \A d \in dirs : d # << >> => d[Len(d)] \notin Nested
    /\ \A f \in DOMAIN files : f[Len(f)] \notin Nested

C33_Witness ==
    /\ pc = "main_fin" /\ exc = "none" /\ SyncStart = 0
    /\ Cardinality(FolderMkdirs) = 2
    /\ \E i, j \in FolderMkdirs : i < j /\ FolderOf(i) = "v1" /\ FolderOf(j) = "v2"
          /\ \E u, w \in InSync("upload_file") :
                /\ i < u /\ u < j /\ j < w
                /\ calls[u].args[1][1] = "a.md" /\ calls[w].args[1][1] = "b.md"
    /\ Nested = {"img"}
    /\ \E r \in SyncReturns : calls[r].ret = "True"


\* A step that logs a connect.
ConnectStep == Len(calls') > Len(calls) /\ calls'[Len(calls) + 1].op = "connect"

\* What holds of the sessions of a release in every state: none is open from
\* the end of the gate to the main connect, pre-sign included; a gate that is
\* skipped contacts nobody; a live release that went as far as the main
\* session has made two connects when the gate was evaluated and one when it
\* was skipped, and when it has ended as many disconnects.
SessionCycles ==
    /\ pc \in {"start", "dry", "gate", "presign", "ps_wait", "ps_back", "connect"} =>
          (ftp = "None" /\ wire = "closed")
    /\ (pc \in {"presign", "ps_wait", "ps_back", "connect"}) =>
          Cardinality(CallsOf("disconnect")) = Cardinality(CallsOf("connect"))
    /\ GateSkipped(config.policy, version) =>
          /\ CallsOf("directory_exists") = {} /\ CallsOf("input") = {}
          /\ Cardinality(CallsOf("connect")) <= 1
    /\ Cardinality(CallsOf("connect")) <= 2
    /\ Cardinality(CallsOf("disconnect")) <= Cardinality(CallsOf("connect"))
    /\ CallsOf("file_exists") # {} =>
          /\ Cardinality(CallsOf("connect")) =
                IF GateSkipped(config.policy, version) THEN 1 ELSE 2
          /\ \A i \in CallsOf("connect") : calls[i].ret = "none"
          /\ pc = "done" =>
                /\ Cardinality(CallsOf("disconnect")) = Cardinality(CallsOf("connect"))
                /\ ftp = "None" /\ wire = "closed"

\* C34: at every point of a release at most one session is open: a connect is
\* made only when none is.  The gate's session is closed before pre-signing
\* begins and before the main session is opened; a live release that
\* evaluates the gate and goes on makes exactly two connect/disconnect cycles,
\* and one that skips the gate contacts the remote side in the main session
\* only and makes exactly one.
C34_OneSessionAtATime ==
    /\ []SessionCycles
    /\ [][ConnectStep => (ftp = "None" /\ wire = "closed")]_vars

C34_Witness ==
    /\ pc = "done" /\ result = "true" /\ ~dry_run
    /\ Cardinality(CallsOf("connect")) = 2 /\ Cardinality(CallsOf("disconnect")) = 2
    /\ config.pre_sign # None /\ ProcessReturns # {}
    /\ CallsOf("input") # {}


\* The remote directories a path names from the working directory: its
\* prefixes, the shortest first.
Prefixes(parts) == { cwd \o SubSeq(parts, 1, k) : k \in 1..Len(parts) }

\* Whether the server carried out every MKD of a call as far as its state allowed.
AllOk(i) == \A k \in 1..Len(calls[i].args[2]) : calls[i].args[2][k] = "ok"

\* The tree a call found.
TreeBefore(i) == IF i = 1 THEN init.dirs ELSE calls[i - 1].args[3]

\* C35: ensure_directory sends an MKD for every prefix of the path, the
\* shortest first, so that on a server that carries them out every prefix is
\* a directory afterwards (unless a file of that name is in the way); it
\* raises only when an MKD fails otherwise than by a refusal, so never because
\* a component exists; it removes nothing and creates nothing but prefixes of
\* the path; and a second call in a row, from the same working directory,
\* leaves the tree the first one left.
C35_EnsureDirectory ==
    \A i \in 1..Len(calls) :
       LET parts == calls[i].args[1]
           outs  == calls[i].args[2]
           after == calls[i].args[3]
       IN  /\ calls[i].ret \in {"none", "OSError"}
           /\ (\A k \in 1..Len(parts) : outs[k] # "oserr") => calls[i].ret = "none"
           /\ TreeBefore(i) \subseteq after
           /\ (after \ TreeBefore(i)) \subseteq Prefixes(parts)
           /\ AllOk(i) =>
                \A k \in 1..Len(parts) :
                   \/ (cwd \o SubSeq(parts, 1, k)) \in after
                   \/ \E j \in 1..k : (cwd \o SubSeq(parts, 1, j)) \in DOMAIN files
           /\ (i > 1 /\ AllOk(i - 1)) =>
                (after = calls[i - 1].args[3] /\ (AllOk(i) => calls[i].ret = "none"))
           /\ i = Len(calls) => dirs = after

C35_Witness ==
    /\ Len(calls) = 2
    /\ calls[1].args[1] = <<SubfolderBase, "1.0.0">>
    /\ AllOk(1) /\ AllOk(2)
    /\ init.dirs \cap Prefixes(calls[1].args[1]) = {cwd \o <<SubfolderBase>>}
    /\ Prefixes(calls[1].args[1]) \subseteq dirs
    /\ calls[2].ret = "none" /\ calls[2].args[3] = calls[1].args[3]


\* The connect calls that failed.
FailedConnects == { i \in CallsOf("connect") : calls[i].ret # "none" }

\* C36 as stated: a connect that fails at any step fails with the transport
\* error and leaves the client not connected, so that a store operation called
\* next fails with the transport error 'Not connected'.
C36_AsStated ==
    \A i \in FailedConnects :
       /\ calls[i].ret = "FTPError"
       /\ i = Len(calls) => ftp = "None"
       /\ (i < Len(calls) /\ calls[i + 1].op \in StoreOps) => calls[i + 1].ret = "FTPError"


\* A release whose backup folder is named by the clock, with the Rename policy
\* and a version.
TimestampGate == config.policy = "rename" /\ config.naming = "timestamp" /\ Truthy(version)

\* The calls a release makes after its gate.
AfterGate == { i \in 1..Len(calls) :
                 calls[i].op \in {"pre_signer.process", "file_exists", "handle",
                                  "rename_file", "upload_file"} }

\* C37: with the Rename policy, Timestamp naming and a version the gate is
\* evaluated all the same: nothing of the release proper is done before
\* directory_exists has answered for {subfolder_base}/{version}; when it
\* answers True the operator is asked (unless interrupted first); a negative
\* answer makes release return false with nothing of the release proper done
\* and no second session; and a backup made in such a run is renamed into a
\* folder named by the clock, not by the version.
C37_GateIgnoresNaming ==
    TimestampGate =>
        /\ \A i \in AfterGate :
              \E j \in CallsOf("directory_exists") :
                 /\ j < i
                 /\ calls[j].args = <<VersionPath>>
                 /\ calls[j].ret \in {"True", "False"}
        /\ \A j \in CallsOf("directory_exists") :
              /\ calls[j].args = <<VersionPath>>
              /\ calls[j].ret = "True" =>
                    \/ pc = "gate_prompt"
                    \/ exc = "KeyboardInterrupt"
                    \/ \E i \in CallsOf("input") : j < i
        /\ \A i \in CallsOf("input") :
              calls[i].ret \in NegativeAnswers =>
                 /\ result = "false"
                 /\ AfterGate = {}
                 /\ Cardinality(CallsOf("connect")) = 1
        /\ \A i \in CallsOf("rename_file") :
              /\ calls[i].args[2][2] \in Stamps
              /\ calls[i].args[2][2] # version[1]

C37_Witness ==
    /\ TimestampGate /\ pc = "done" /\ result = "false"
    /\ Artifact(filename) \in DOMAIN files
    /\ \E j \in CallsOf("directory_exists"), i \in CallsOf("input") :
          j < i /\ calls[j].ret = "True" /\ calls[i].ret = "n"
    /\ ftp = "None"

\* C38: once the prompt has been answered, the release goes on exactly when
\* the answer lower-cased is "y": "y" and "Y" never end it with false, and
\* with no failure it opens the main session and returns true; every other
\* answer, "n", the empty one, "yes" and " y" among them, makes release return
\* false with pre-signing never started, no main session and no remote change.
C38_ExactlyY ==
    \A i \in CallsOf("input") :
       LET a == calls[i].ret
       IN  /\ a \in Answers
           /\ a \in {"y", "Y"} =>
                 /\ result # "false"
                 /\ (pc = "done" /\ exc = "none") =>
                       (result = "true" /\ Cardinality(Connected) = 2)
           /\ a \notin {"y", "Y"} =>
                 /\ result = "false"
                 /\ AfterGate = {}
                 /\ Cardinality(CallsOf("connect")) = 1
                 /\ dirs = init.dirs /\ files = init.files
                 /\ pc \in {"gate_fin", "done"}
                 /\ pc = "done" => ftp = "None"

C38_Witness ==
    /\ pc = "done" /\ result = "false" /\ exc = "none"
    /\ \E i \in CallsOf("input") : calls[i].ret = " y"
    /\ config.pre_sign # None /\ CallsOf("pre_signer.process") = {}

\* What the release-notes sync returned to release.
UploadReturns == { i \in 1..Len(calls) : calls[i].op = "release_notes.upload" }

\* C39: what the sync returns never reaches the result of release.  In a live
\* release the sync is reached only after the artifact was uploaded, and when
\* it returns, True or False, a release that then ends without an exception
\* returns true; in a dry run the result is true whatever the preview returned.
C39_SyncResultIgnored ==
    /\ \A i \in UploadReturns :
          /\ calls[i].ret \in {"True", "False"}
          /\ ~dry_run => \E u \in ArtifactUploads : u < i /\ calls[u].ret = "none"
          /\ (pc = "done" /\ exc = "none") => result = "true"
    /\ (dry_run /\ pc = "done" /\ init.localFile # "absent") => result = "true"

C39_Witness ==
    /\ ~dry_run /\ pc = "done" /\ exc = "none" /\ result = "true"
    /\ \E i \in UploadReturns : calls[i].ret = "False"


\* The mkdirs of version folders in the run before the retry.
FirstMkdirs == { i \in CallsOf("ensure_directory") :
                   /\ i < SyncStart
                   /\ Len(calls[i].args[1]) = Len(NotesCfg.remote.parts) + 1 }

\* The folder an aborted run left partly uploaded: the last one it made sure
\* of, when that run created a remote directory of that name and was then
\* aborted by the change into it or by the upload of one of its files.
PartialFolders ==
    IF SyncStart = 0 \/ calls[SyncStart].ret # "retried" THEN {}
    ELSE { F \in LocalSet :
             /\ \E i \in FirstMkdirs :
                   /\ FolderOf(i) = F
                   /\ calls[i].ret = "none"
                   /\ \A j \in FirstMkdirs : j <= i
             /\ \E d \in calls[SyncStart].args[1] \ init.dirs : d[Len(d)] = F }

\* The retries whose listing succeeded.
ListedAgain == { i \in InSync("list_directories") : calls[i].ret = "none" }

\* C40 as stated: when a sync was aborted after it created the remote folder of
\* F and before it had uploaded all of F's files, a later sync whose listing
\* succeeds takes F as present: it makes no remote directory for F and uploads
\* none of F's files.
C40_AsStated ==
    \A F \in PartialFolders :
       ListedAgain # {} =>
          /\ \A i \in FolderMkdirs : FolderOf(i) # F
          /\ \A u \in InSync("upload_file") :
                calls[u].args[1][1] \notin RegularFiles(NotesCfg, F)

=============================================================================
